---- MODULE Spec2Model ----
(***************************************************************************)
(* Verification model of the hallucination-enforcement layer of            *)
(* PurityPropAI: backend/app/core/hallucination_guard.py (claim scanner,   *)
(* reference value index, judge, sanitizer) and                            *)
(* backend/app/core/hallucination_adapter.py (production adapter).         *)
(*                                                                         *)
(* Text is a sequence of one-character strings.  Numbers are decimal       *)
(* floating point values [m, e] = m * 10^e with a normalised mantissa, so  *)
(* that equal numbers are equal records (as equal floats are one element   *)
(* of a Python set).                                                       *)
(***************************************************************************)
EXTENDS Integers, Sequences, FiniteSets, TLC

(***************************************************************************)
(* Bounds of the model (not program constants).                            *)
(***************************************************************************)
\* Largest number of fragments a narrative is composed of.
MaxPieces == 2
\* Largest number of children added to one reference structure.
MaxNodes == 3
\* Largest number of identifiers in one ranked list.
MaxHits == 2
\* Largest number of verify calls on one judge instance.
MaxCalls == 2
\* Largest number of candidates handed to the reranker.
MaxCandidates == 3
\* Largest k of extract_top_k_context.
MaxK == 2
\* Number of concurrent callers of one judge, and of concurrent requests
MaxCallers == 2
\* Number of requests the /query route serves
MaxRequests == 2

(***************************************************************************)
(* Decimal arithmetic (Python float and round(), on decimal values).       *)
(***************************************************************************)
Pow10Table == <<1, 10, 100, 1000, 10000, 100000, 1000000, 10000000,
                100000000, 1000000000>>

\* 10^k for 0 <= k <= 9.
Pow10(k) == Pow10Table[k + 1]

IntAbs(n) == IF n < 0 THEN 0 - n ELSE n

RECURSIVE NDigits(_)
\* Number of decimal digits of n >= 0 (0 for n = 0).
NDigits(n) == IF n = 0 THEN 0 ELSE 1 + NDigits(n \div 10)

RECURSIVE DecNorm(_, _)
\* The canonical record of m * 10^e: no trailing zero in the mantissa.
DecNorm(m, e) ==
    IF m = 0 THEN [m |-> 0, e |-> 0]
    ELSE IF m % 10 = 0 THEN DecNorm(m \div 10, e + 1)
    ELSE [m |-> m, e |-> e]

\* The decimal m * 10^e.
Dec(m, e) == DecNorm(m, e)

DecZero == [m |-> 0, e |-> 0]

\* abs(x)
DecAbs(x) == [m |-> IntAbs(x.m), e |-> x.e]

\* Position of the leading digit: |x| is in [10^(Top-1), 10^Top).
DecTop(x) == NDigits(IntAbs(x.m)) + x.e

\* Mantissa of x at exponent lo (digits below lo are cut, as a float
\* operation loses the digits below its precision).
DecAt(x, lo) ==
    IF x.e >= lo
    THEN x.m * Pow10(x.e - lo)
    ELSE IF lo - x.e > 9 THEN 0
    ELSE IF x.m >= 0 THEN x.m \div Pow10(lo - x.e)
    ELSE 0 - (IntAbs(x.m) \div Pow10(lo - x.e))

\* x - y, carried out on nine significant decimal digits.
DecSub(x, y) ==
    LET top == IF DecTop(x) >= DecTop(y) THEN DecTop(x) ELSE DecTop(y)
        mine == IF x.e <= y.e THEN x.e ELSE y.e
        lo == IF x.m = 0 THEN y.e
              ELSE IF y.m = 0 THEN x.e
              ELSE IF mine >= top - 9 THEN mine ELSE top - 9
    IN  DecNorm(DecAt(x, lo) - DecAt(y, lo), lo)

\* x < y
DecLt(x, y) == DecSub(x, y).m < 0

\* x * 10^k (exact)
DecShift(x, k) == DecNorm(x.m, x.e + k)

\* x * k for a small integer k >= 0, on nine significant digits.
DecTimes(x, k) ==
    IF IntAbs(x.m) >= 100000000
    THEN DecNorm((x.m \div 10) * k, x.e + 1)
    ELSE DecNorm(x.m * k, x.e)

\* Python round(x, n): nearest multiple of 10^-n, ties to the even one.
DecRound(x, n) ==
    IF x.e >= 0 - n THEN x
    ELSE LET k == (0 - n) - x.e
         IN  IF k > 9 THEN DecZero
             ELSE LET a == IntAbs(x.m)
                      q == a \div Pow10(k)
                      r == a % Pow10(k)
                      half == 5 * Pow10(k - 1)
                      up == IF r > half \/ (r = half /\ q % 2 = 1)
                            THEN q + 1 ELSE q
                  IN  DecNorm(IF x.m < 0 THEN 0 - up ELSE up, 0 - n)

(***************************************************************************)
(* Text: characters, classes and the regular expressions of                *)
(* NUMERIC_PATTERNS, matched as Python's re does (leftmost start, greedy   *)
(* repetition, ordered alternation, backtracking, re.IGNORECASE).          *)
(***************************************************************************)
\* The one-character string U+20B9 (Indian rupee sign).
Rupee == "RUPEE"

DIGIT == {"0", "1", "2", "3", "4", "5", "6", "7", "8", "9"}

\* \s
SPACE == {" ", "\n", "\t"}

UpperLetters == <<"A", "B", "C", "D", "E", "F", "G", "H", "I", "J", "K", "L",
                  "M", "N", "O", "P", "Q", "R", "S", "T", "U", "V", "W", "X",
                  "Y", "Z">>

LowerLetters == <<"a", "b", "c", "d", "e", "f", "g", "h", "i", "j", "k", "l",
                  "m", "n", "o", "p", "q", "r", "s", "t", "u", "v", "w", "x",
                  "y", "z">>

\* The set of characters that re.IGNORECASE lets a class written in lower
\* case match: its characters and the upper-case forms of its letters.
IgnoreCase(cls) ==
    cls \cup {UpperLetters[i] : i \in {j \in 1..26 : LowerLetters[j] \in cls}}

\* \w
WORD == IgnoreCase({LowerLetters[i] : i \in 1..26}) \cup DIGIT \cup {"_"}

\* Regular expression elements.
ReChar(cls) == [k |-> "chr", c |-> IgnoreCase(cls), n |-> 1, a |-> <<>>]
ReStar(cls) == [k |-> "rep", c |-> IgnoreCase(cls), n |-> 0, a |-> <<>>]
RePlus(cls) == [k |-> "rep", c |-> IgnoreCase(cls), n |-> 1, a |-> <<>>]
ReAlt(alts) == [k |-> "alt", c |-> {}, n |-> 0, a |-> alts]
ReOpt(p) == ReAlt(<<p, <<>>>>)
ReOpen == [k |-> "open", c |-> {}, n |-> 0, a |-> <<>>]
ReClose == [k |-> "close", c |-> {}, n |-> 0, a |-> <<>>]
ReNotAhead(cls) == [k |-> "nla", c |-> cls, n |-> 0, a |-> <<>>]
\* A literal: one element that matches its characters in a row.
ReLit(s) ==
    <<[k |-> "lit", c |-> {}, n |-> 0,
       a |-> [i \in 1..Len(s) |-> IgnoreCase({s[i]})]]>>

NoMatch == [ok |-> FALSE, end |-> 0, gs |-> 0, ge |-> 0]

\* Length of the longest run of characters of class cls starting at pos.
RECURSIVE RunLen(_, _, _)
RunLen(cls, t, pos) ==
    IF pos <= Len(t) /\ t[pos] \in cls
    THEN 1 + RunLen(cls, t, pos + 1)
    ELSE 0

RECURSIVE MatchSeq(_, _, _, _, _)
RECURSIVE TryRep(_, _, _, _, _, _, _)
RECURSIVE TryAlt(_, _, _, _, _, _, _)

\* Match of the element sequence p at position pos (1-based) of the text
\* t; gs, ge are the bounds of group 1 so far.  The first match in backtracking
\* order is returned.
MatchSeq(p, t, pos, gs, ge) ==
    IF Len(p) = 0
    THEN [ok |-> TRUE, end |-> pos, gs |-> gs, ge |-> ge]
    ELSE LET h == Head(p)
             rest == Tail(p)
         IN  CASE h.k = "chr" ->
                    IF pos <= Len(t) /\ t[pos] \in h.c
                    THEN MatchSeq(rest, t, pos + 1, gs, ge)
                    ELSE NoMatch
               [] h.k = "lit" ->
                    IF /\ pos + Len(h.a) - 1 <= Len(t)
                       /\ \A i \in 1..Len(h.a) : t[pos + i - 1] \in h.a[i]
                    THEN MatchSeq(rest, t, pos + Len(h.a), gs, ge)
                    ELSE NoMatch
               [] h.k = "rep" ->
                    TryRep(rest, t, pos, RunLen(h.c, t, pos), h.n, gs, ge)
               [] h.k = "alt" -> TryAlt(h.a, 1, rest, t, pos, gs, ge)
               [] h.k = "open" -> MatchSeq(rest, t, pos, pos, ge)
               [] h.k = "close" -> MatchSeq(rest, t, pos, gs, pos)
               [] h.k = "nla" ->
                    IF pos <= Len(t) /\ t[pos] \in h.c
                    THEN NoMatch
                    ELSE MatchSeq(rest, t, pos, gs, ge)

\* Greedy repetition: the longest count first, then shorter ones.
TryRep(rest, t, pos, count, min, gs, ge) ==
    IF count < min THEN NoMatch
    ELSE LET r == MatchSeq(rest, t, pos + count, gs, ge)
         IN  IF r.ok THEN r
             ELSE TryRep(rest, t, pos, count - 1, min, gs, ge)

\* Ordered alternation: the first alternative the rest matches after.
TryAlt(alts, i, rest, t, pos, gs, ge) ==
    IF i > Len(alts) THEN NoMatch
    ELSE LET r == MatchSeq(alts[i] \o rest, t, pos, gs, ge)
         IN  IF r.ok THEN r
             ELSE TryAlt(alts, i + 1, rest, t, pos, gs, ge)

\* The characters a match of p can start with; nul is TRUE when p can
\* match the empty string.
RECURSIVE StartInfo(_)
RECURSIVE StartOfAlts(_, _, _)
StartInfo(p) ==
    IF Len(p) = 0 THEN [c |-> {}, nul |-> TRUE]
    ELSE LET h == Head(p)
             r == StartInfo(Tail(p))
         IN  CASE h.k = "chr" -> [c |-> h.c, nul |-> FALSE]
               [] h.k = "lit" -> [c |-> h.a[1], nul |-> FALSE]
               [] h.k = "rep" ->
                    IF h.n = 0 THEN [c |-> h.c \cup r.c, nul |-> r.nul]
                    ELSE [c |-> h.c, nul |-> FALSE]
               [] h.k = "alt" -> StartOfAlts(h.a, 1, Tail(p))
               [] OTHER -> r

StartOfAlts(alts, i, rest) ==
    IF i > Len(alts) THEN [c |-> {}, nul |-> FALSE]
    ELSE LET x == StartInfo(alts[i] \o rest)
             y == StartOfAlts(alts, i + 1, rest)
         IN  [c |-> x.c \cup y.c, nul |-> x.nul \/ y.nul]

\* The positions of the text t at which a match of the pattern starts, in
\* increasing order.  A position whose character no match can start with
\* is passed over.
MatchStarts(pat, t) ==
    SelectSeq([s \in 1..Len(t) |-> s],
              LAMBDA s : /\ pat.start.nul \/ t[s] \in pat.start.c
                         /\ MatchSeq(pat.re, t, s, 0, 0).ok)

\* The matches among those starting at starts[k], starts[k + 1], ... that
\* re.finditer yields when it searches from position from: the leftmost
\* one, then the matches from its end on.
RECURSIVE MatchesFrom(_, _, _, _)
MatchesFrom(pat, t, starts, from) ==
    IF \A k \in 1..Len(starts) : starts[k] < from THEN <<>>
    ELSE LET k == CHOOSE k \in 1..Len(starts) :
                    /\ starts[k] >= from
                    /\ \A j \in 1..(k - 1) : starts[j] < from
             r == MatchSeq(pat.re, t, starts[k], 0, 0)
         IN  <<[start |-> starts[k], end |-> r.end, gs |-> r.gs,
                ge |-> r.ge]>>
             \o MatchesFrom(pat, t, starts,
                            IF r.end > starts[k] THEN r.end
                            ELSE starts[k] + 1)

\* re.finditer(pattern, text): the non-overlapping matches, left to right,
\* searching the text t from position from (1-based).
FindIter(pat, t, from) == MatchesFrom(pat, t, MatchStarts(pat, t), from)

\* [\d,]+(?:\.\d+)?
ReAmount == <<RePlus(DIGIT \cup {","}),
              ReOpt(<<ReChar({"."}), RePlus(DIGIT)>>)>>

\* [\d.]+
ReNumber == <<RePlus(DIGIT \cup {"."})>>

\* One (pattern, claim type) pair of NUMERIC_PATTERNS, with the characters
\* its matches start with.
Pattern(type, re) == [type |-> type, re |-> re, start |-> StartInfo(re)]

NUMERIC_PATTERNS == <<
    Pattern("price",
            <<ReChar({Rupee}), ReStar(SPACE), ReOpen>> \o ReAmount
            \o <<ReClose>>),
    Pattern("price",
            <<ReAlt(<<ReLit(<<"r", "s">>) \o <<ReOpt(<<ReChar({"."})>>)>>,
                      ReLit(<<"i", "n", "r">>)>>),
              ReStar(SPACE), ReOpen>> \o ReAmount \o <<ReClose>>),
    Pattern("price_crore",
            <<ReOpen>> \o ReNumber \o <<ReClose, ReStar(SPACE),
              ReAlt(<<ReLit(<<"c", "r", "o", "r", "e">>),
                      ReLit(<<"c", "r">>)>>)>>),
    Pattern("price_lakh",
            <<ReOpen>> \o ReNumber \o <<ReClose, ReStar(SPACE),
              ReAlt(<<ReLit(<<"l", "a", "k", "h">>),
                      ReLit(<<"l", "a", "c">>),
                      ReLit(<<"l">>)>>)>>),
    Pattern("percentage",
            <<ReOpen>> \o ReNumber \o <<ReClose, ReStar(SPACE),
              ReChar({"%"})>>),
    Pattern("cagr",
            ReLit(<<"c", "a", "g", "r">>)
            \o <<RePlus({":"} \cup SPACE), ReChar({"o"}),
                 ReOpt(<<ReChar({"f"})>>), ReStar(SPACE), ReOpen>>
            \o ReNumber \o <<ReClose, ReStar(SPACE), ReChar({"%"})>>),
    Pattern("price_per_sqft",
            <<ReOpen>> \o ReAmount \o <<ReClose, ReStar(SPACE),
              ReAlt(<<ReLit(<<"p", "e", "r">>) \o <<ReStar(SPACE)>>
                      \o ReLit(<<"s", "q">>) \o <<ReStar(SPACE)>>
                      \o ReLit(<<"f", "t">>),
                      ReLit(<<"/", "s", "q">>) \o <<ReStar(SPACE)>>
                      \o ReLit(<<"f", "t">>),
                      ReLit(<<"p", "s", "f">>)>>)>>),
    Pattern("distance_km",
            <<ReOpen>> \o ReNumber \o <<ReClose, ReStar(SPACE),
              ReAlt(<<ReLit(<<"k", "m">>),
                      ReLit(<<"k", "i", "l", "o", "m", "e", "t", "e",
                              "r">>)>>)>>),
    Pattern("distance_m",
            <<ReOpen>> \o ReNumber \o <<ReClose, ReStar(SPACE),
              ReAlt(<<ReLit(<<"m">>),
                      ReLit(<<"m", "e", "t", "e", "r">>)>>),
              ReNotAhead(WORD)>>),
    Pattern("score",
            <<ReAlt(<<ReLit(<<"s", "c", "o", "r", "e">>),
                      ReLit(<<"r", "a", "t", "i", "n", "g">>)>>),
              RePlus({":"} \cup SPACE), ReOpen>> \o ReNumber
            \o <<ReClose>>),
    Pattern("bhk",
            <<ReOpen, RePlus(DIGIT), ReClose, ReStar(SPACE)>>
            \o ReLit(<<"b", "h", "k">>)),
    Pattern("area_sqft",
            <<ReOpen>> \o ReAmount \o <<ReClose, ReStar(SPACE)>>
            \o ReLit(<<"s", "q">>) \o <<ReStar(SPACE)>>
            \o ReLit(<<"f", "t">>))
>>

\* t[a..b-1] (1-based, end exclusive)
Slice(t, a, b) == [i \in 1..(b - a) |-> t[a + i - 1]]

\* str.replace(',', '') on a numeral
RECURSIVE StripCommas(_)
StripCommas(s) ==
    IF Len(s) = 0 THEN <<>>
    ELSE IF Head(s) = "," THEN StripCommas(Tail(s))
    ELSE <<Head(s)>> \o StripCommas(Tail(s))

DigitValue(c) == CHOOSE d \in 0..9 :
    <<"0", "1", "2", "3", "4", "5", "6", "7", "8", "9">>[d + 1] = c

\* Mantissa and count of fraction digits of a numeral made of digits and
\* dots; seen is TRUE once the dot was passed.
RECURSIVE ScanNumeral(_, _, _, _)
ScanNumeral(s, m, frac, seen) ==
    IF Len(s) = 0 THEN [m |-> m, frac |-> frac]
    ELSE IF Head(s) = "." THEN ScanNumeral(Tail(s), m, frac, TRUE)
    ELSE ScanNumeral(Tail(s), 10 * m + DigitValue(Head(s)),
                     IF seen THEN frac + 1 ELSE frac, seen)

\* float(raw_value): ok = FALSE stands for ValueError.
ParseFloat(s) ==
    LET dots == Cardinality({i \in 1..Len(s) : s[i] = "."})
        digits == Cardinality({i \in 1..Len(s) : s[i] \in DIGIT})
    IN  IF dots > 1 \/ digits = 0
        THEN [ok |-> FALSE, value |-> DecZero]
        ELSE LET r == ScanNumeral(s, 0, 0, FALSE)
             IN  [ok |-> TRUE, value |-> Dec(r.m, 0 - r.frac)]

\* The claims one pattern contributes, in match order.
RECURSIVE ClaimsOfMatches(_, _, _)
ClaimsOfMatches(type, t, ms) ==
    IF Len(ms) = 0 THEN <<>>
    ELSE LET mt == Head(ms)
             f == ParseFloat(StripCommas(Slice(t, mt.gs, mt.ge)))
         IN  (IF f.ok
              THEN <<[type |-> type, value |-> f.value,
                      raw |-> Slice(t, mt.start, mt.end),
                      position |-> mt.start - 1]>>
              ELSE <<>>)
             \o ClaimsOfMatches(type, t, Tail(ms))

\* The items of the sequence f, held as a list instead of as the expression
\* that computes them.
Listed(f) == SubSeq(f, 1, Len(f))

\* The claims each pattern contributes, one list per pattern, in the order
\* of NUMERIC_PATTERNS.
PatternClaims(t) ==
    Listed([i \in 1..Len(NUMERIC_PATTERNS) |->
              ClaimsOfMatches(NUMERIC_PATTERNS[i].type, t,
                              FindIter(NUMERIC_PATTERNS[i], t, 1))])

\* The lists i..Len(lists) one after the other.
RECURSIVE Joined(_, _)
Joined(lists, i) ==
    IF i > Len(lists) THEN <<>>
    ELSE lists[i] \o Joined(lists, i + 1)

\* The claims of the patterns i, i + 1, ... in pattern order.
ClaimsFrom(i, t) == Joined(PatternClaims(t), i)

\* extract_numeric_claims(text), as the mutant that keeps one claim per
\* value.
ExtractDeduplicated(text) ==
    LET all == ClaimsFrom(1, text)
        kept[i \in 0..Len(all)] ==
            IF i = 0 THEN <<>>
            ELSE IF \E j \in 1..(i - 1) : all[j].value = all[i].value
            THEN kept[i - 1]
            ELSE Append(kept[i - 1], all[i])
    IN  kept[Len(all)]

\* extract_numeric_claims(text)
extract_numeric_claims(text) == ClaimsFrom(1, text)

(***************************************************************************)
(* Reference values: the structures handed to the judge are JSON-like      *)
(* trees.  A bool leaf carries 1 or 0, the value float() gives it (bool    *)
(* is a subclass of int in Python).                                        *)
(***************************************************************************)
JNum(x) == [t |-> "num", v |-> x, keys |-> <<>>, kids |-> <<>>]
JBool(b) == [t |-> "bool", v |-> IF b THEN Dec(1, 0) ELSE DecZero,
             keys |-> <<>>, kids |-> <<>>]
JStr == [t |-> "str", v |-> DecZero, keys |-> <<>>, kids |-> <<>>]
JNull == [t |-> "null", v |-> DecZero, keys |-> <<>>, kids |-> <<>>]
JList(kids) == [t |-> "list", v |-> DecZero, keys |-> <<>>, kids |-> kids]
JDict(keys, kids) == [t |-> "dict", v |-> DecZero, keys |-> keys,
                      kids |-> kids]

\* isinstance(obj, (int, float)): true of a bool too.
IsNumber(obj) == obj.t \in {"num", "bool"}

RECURSIVE extract_tool_values(_)
RECURSIVE ExtractAll(_)
\* extract_tool_values(tool_outputs): the float of every numeric leaf, in
\* walk order (the path keys the source groups them under are dropped).
extract_tool_values(obj) ==
    IF IsNumber(obj) THEN <<obj.v>>
    ELSE IF obj.t \in {"dict", "list"} THEN ExtractAll(obj.kids)
    ELSE <<>>

ExtractAll(kids) ==
    IF Len(kids) = 0 THEN <<>>
    ELSE extract_tool_values(Head(kids)) \o ExtractAll(Tail(kids))

\* What flatten_tool_values adds for one value v.
Transformations(v) ==
    {v} \cup
    (IF v # DecZero
     THEN {DecRound(v, 2), DecRound(v, 4),
           DecRound(DecShift(v, 2), 2), DecRound(DecShift(v, 2), 4),
           DecRound(DecShift(v, 0 - 5), 2),
           DecRound(DecShift(v, 0 - 7), 2)}
     ELSE {})

\* flatten_tool_values(tool_outputs)
flatten_tool_values(obj) ==
    LET vals == extract_tool_values(obj)
    IN  UNION {Transformations(vals[i]) : i \in 1..Len(vals)}

(***************************************************************************)
(* HallucinationJudge                                                      *)
(***************************************************************************)
\* 0.01
TOLERANCE_ABSOLUTE == Dec(1, 0 - 2)
\* 0.05, as the integer k with 0.05 = k / 100
TOLERANCE_RELATIVE_PCT == 5

SAFE_CLAIM_TYPES == {"bhk"}

\* HallucinationJudge._values_match, as the mutant without the relative
\* tolerance.
ValuesMatchAbsOnly(claimed, reference) ==
    DecLt(DecAbs(DecSub(claimed, reference)), TOLERANCE_ABSOLUTE)

\* HallucinationJudge._values_match.  The quotient test d / |ref| < 0.05 is
\* evaluated as 100 * d < 5 * |ref| (|ref| > 0).
_values_match(claimed, reference) ==
    IF reference = DecZero
    THEN DecLt(DecAbs(claimed), TOLERANCE_ABSOLUTE)
    ELSE IF DecLt(DecAbs(DecSub(claimed, reference)), TOLERANCE_ABSOLUTE)
    THEN TRUE
    ELSE DecLt(DecShift(DecAbs(DecSub(claimed, reference)), 2),
               DecTimes(DecAbs(reference), TOLERANCE_RELATIVE_PCT))

\* HallucinationJudge._find_matching_source, as the mutant that asks every
\* reference value to match (true of an empty reference set).
FindMatchingSourceAll(claim_value, tool_values) ==
    \A ref_val \in tool_values : _values_match(claim_value, ref_val)

\* HallucinationJudge._find_matching_source(...) is not None
_find_matching_source(claim_value, tool_values) ==
    \E ref_val \in tool_values : _values_match(claim_value, ref_val)

NoneValue == [none |-> TRUE, value |-> DecZero]

\* HallucinationJudge._find_closest: None for an empty set, else the
\* arg-min of |x - value| (its difference_percent diagnostic is left out).
_find_closest(value, reference_set) ==
    IF reference_set = {} THEN NoneValue
    ELSE [none |-> FALSE,
          value |-> CHOOSE x \in reference_set :
                      \A y \in reference_set :
                        ~DecLt(DecAbs(DecSub(y, value)),
                               DecAbs(DecSub(x, value)))]

\* HallucinationVerdict(): the defaults of a fresh verdict.
HallucinationVerdict ==
    [mismatch_detected |-> FALSE, total_claims |-> 0, verified_claims |-> 0,
     unverified_claims |-> 0, mismatches |-> <<>>, verdict |-> "clean",
     action_taken |-> "none", confidence |-> [num |-> 1, den |-> 1]]

\* all_reference_values of verify.  retrieved_data = <<>> stands for both
\* None and the empty list.
ReferenceValues(tool_outputs, retrieved_data) ==
    flatten_tool_values(tool_outputs) \cup
    UNION {flatten_tool_values(retrieved_data[i]) :
             i \in 1..Len(retrieved_data)}

\* The test "claim type in SAFE_CLAIM_TYPES", as the mutant that exempts
\* nothing.
IsSafeClaimNever(claim) == FALSE

\* claim["type"] in self.SAFE_CLAIM_TYPES
IsSafeClaim(claim) == claim.type \in SAFE_CLAIM_TYPES

\* The loop "for claim in claims" of verify, as the mutant that passes over
\* an exempt claim without counting it.
RECURSIVE CheckClaimsSafeUncounted(_, _, _, _)
CheckClaimsSafeUncounted(claims, i, refs, vd) ==
    IF i > Len(claims) THEN vd
    ELSE LET claim == claims[i]
         IN  IF IsSafeClaim(claim)
             THEN CheckClaimsSafeUncounted(claims, i + 1, refs, vd)
             ELSE IF _find_matching_source(claim.value, refs)
             THEN CheckClaimsSafeUncounted(claims, i + 1, refs,
                    [vd EXCEPT !.verified_claims = @ + 1])
             ELSE CheckClaimsSafeUncounted(claims, i + 1, refs,
                    [vd EXCEPT !.unverified_claims = @ + 1,
                               !.mismatches = Append(@,
                                 [claimed_value |-> claim.value,
                                  claim_type |-> claim.type,
                                  raw_text |-> claim.raw,
                                  position |-> claim.position,
                                  closest_reference |->
                                    _find_closest(claim.value, refs)])])

\* The loop "for claim in claims" of verify, as the mutant that puts each
\* new mismatch in front of the earlier ones.
RECURSIVE CheckClaimsMismatchFirst(_, _, _, _)
CheckClaimsMismatchFirst(claims, i, refs, vd) ==
    IF i > Len(claims) THEN vd
    ELSE LET claim == claims[i]
         IN  IF IsSafeClaim(claim)
             THEN CheckClaimsMismatchFirst(claims, i + 1, refs,
                    [vd EXCEPT !.verified_claims = @ + 1])
             ELSE IF _find_matching_source(claim.value, refs)
             THEN CheckClaimsMismatchFirst(claims, i + 1, refs,
                    [vd EXCEPT !.verified_claims = @ + 1])
             ELSE CheckClaimsMismatchFirst(claims, i + 1, refs,
                    [vd EXCEPT !.unverified_claims = @ + 1,
                               !.mismatches =
                                 <<[claimed_value |-> claim.value,
                                    claim_type |-> claim.type,
                                    raw_text |-> claim.raw,
                                    position |-> claim.position,
                                    closest_reference |->
                                      _find_closest(claim.value, refs)]>>
                                 \o @])

\* The loop "for claim in claims" of verify, from claim i on.
RECURSIVE CheckClaims(_, _, _, _)
CheckClaims(claims, i, refs, vd) ==
    IF i > Len(claims) THEN vd
    ELSE LET claim == claims[i]
         IN  IF IsSafeClaim(claim)
             THEN CheckClaims(claims, i + 1, refs,
                    [vd EXCEPT !.verified_claims = @ + 1])
             ELSE IF _find_matching_source(claim.value, refs)
             THEN CheckClaims(claims, i + 1, refs,
                    [vd EXCEPT !.verified_claims = @ + 1])
             ELSE CheckClaims(claims, i + 1, refs,
                    [vd EXCEPT !.unverified_claims = @ + 1,
                               !.mismatches = Append(@,
                                 [claimed_value |-> claim.value,
                                  claim_type |-> claim.type,
                                  raw_text |-> claim.raw,
                                  position |-> claim.position,
                                  closest_reference |->
                                    _find_closest(claim.value, refs)])])

\* "Determine verdict", as the mutant whose warning guard is total >= 3.
DetermineVerdictLooseGuard(vd) ==
    IF vd.unverified_claims = 0
    THEN [vd EXCEPT !.verdict = "clean", !.mismatch_detected = FALSE,
                    !.confidence = [num |-> 1, den |-> 1]]
    ELSE IF vd.unverified_claims <= 1 /\ vd.total_claims >= 3
    THEN [vd EXCEPT !.verdict = "warning", !.mismatch_detected = TRUE,
                    !.action_taken = "flagged",
                    !.confidence = [num |-> vd.total_claims
                                            - vd.unverified_claims,
                                    den |-> vd.total_claims]]
    ELSE [vd EXCEPT !.verdict = "hallucination",
                    !.mismatch_detected = TRUE,
                    !.action_taken = "rejected",
                    !.confidence = [num |-> vd.total_claims
                                            - vd.unverified_claims,
                                    den |-> vd.total_claims]]

\* "Determine verdict", as the mutant that gives every rejected narrative
\* the confidence 0.
DetermineVerdictNoConfidence(vd) ==
    IF vd.unverified_claims = 0
    THEN [vd EXCEPT !.verdict = "clean", !.mismatch_detected = FALSE,
                    !.confidence = [num |-> 1, den |-> 1]]
    ELSE IF vd.unverified_claims <= 1 /\ vd.total_claims > 3
    THEN [vd EXCEPT !.verdict = "warning", !.mismatch_detected = TRUE,
                    !.action_taken = "flagged",
                    !.confidence = [num |-> vd.total_claims
                                            - vd.unverified_claims,
                                    den |-> vd.total_claims]]
    ELSE [vd EXCEPT !.verdict = "hallucination",
                    !.mismatch_detected = TRUE,
                    !.action_taken = "rejected",
                    !.confidence = [num |-> 0, den |-> 1]]

\* "Determine verdict" of verify.  confidence is the fraction num / den:
\* 1 - unverified / total (total >= 1 here, and unverified <= total, so
\* the max(...) of the source change nothing).
DetermineVerdict(vd) ==
    IF vd.unverified_claims = 0
    THEN [vd EXCEPT !.verdict = "clean", !.mismatch_detected = FALSE,
                    !.confidence = [num |-> 1, den |-> 1]]
    ELSE IF vd.unverified_claims <= 1 /\ vd.total_claims > 3
    THEN [vd EXCEPT !.verdict = "warning", !.mismatch_detected = TRUE,
                    !.action_taken = "flagged",
                    !.confidence = [num |-> vd.total_claims
                                            - vd.unverified_claims,
                                    den |-> vd.total_claims]]
    ELSE [vd EXCEPT !.verdict = "hallucination",
                    !.mismatch_detected = TRUE,
                    !.action_taken = "rejected",
                    !.confidence = [num |-> vd.total_claims
                                            - vd.unverified_claims,
                                    den |-> vd.total_claims]]

\* The verdict of HallucinationJudge.verify, as the mutant that rejects a
\* narrative without claims.
VerdictForRejectsEmpty(claims, tool_outputs, retrieved_data) ==
    LET vd == [HallucinationVerdict EXCEPT !.total_claims = Len(claims)]
    IN  IF Len(claims) = 0
        THEN [vd EXCEPT !.verdict = "hallucination",
                        !.mismatch_detected = TRUE,
                        !.action_taken = "rejected"]
        ELSE DetermineVerdict(
               CheckClaims(claims, 1,
                           ReferenceValues(tool_outputs, retrieved_data),
                           vd))

\* The verdict HallucinationJudge.verify returns for the claims extracted
\* from the narrative.
VerdictFor(claims, tool_outputs, retrieved_data) ==
    LET vd == [HallucinationVerdict EXCEPT !.total_claims = Len(claims)]
    IN  IF Len(claims) = 0 THEN vd
        ELSE DetermineVerdict(
               CheckClaims(claims, 1,
                           ReferenceValues(tool_outputs, retrieved_data),
                           vd))

\* HallucinationJudge.verify on a judge instance whose counters are vc and
\* mc, as the mutant whose count of unverified claims starts from the
\* instance's mismatch counter.
VerifyOnCarrying(vc, mc, claims, tool_outputs, retrieved_data) ==
    LET vd == VerdictFor(claims, tool_outputs, retrieved_data)
        carried == IF Len(claims) = 0 THEN vd
                   ELSE DetermineVerdict(
                          [vd EXCEPT !.unverified_claims = @ + mc])
    IN  [verdict |-> carried,
         _verification_count |-> vc + 1,
         _mismatch_count |-> IF carried.mismatch_detected
                             THEN mc + 1 ELSE mc]

\* HallucinationJudge.verify on a judge instance whose counters are vc and
\* mc, as the mutant that counts a call only after the early return for a
\* narrative without claims.
VerifyOnUncountedEmpty(vc, mc, claims, tool_outputs, retrieved_data) ==
    LET vd == VerdictFor(claims, tool_outputs, retrieved_data)
    IN  [verdict |-> vd,
         _verification_count |-> IF Len(claims) = 0 THEN vc ELSE vc + 1,
         _mismatch_count |-> IF vd.mismatch_detected THEN mc + 1 ELSE mc]

\* HallucinationJudge.verify on a judge instance whose counters are vc and
\* mc: the verdict returned and the counters after the call.
VerifyOn(vc, mc, claims, tool_outputs, retrieved_data) ==
    LET vd == VerdictFor(claims, tool_outputs, retrieved_data)
    IN  [verdict |-> vd,
         _verification_count |-> vc + 1,
         _mismatch_count |-> IF vd.mismatch_detected THEN mc + 1 ELSE mc]

(***************************************************************************)
(* ResponseSanitizer                                                       *)
(***************************************************************************)
\* The one-character strings U+26A0 and U+FE0F.
WarningSign == "WARNING SIGN"
VariationSelector16 == "VS16"

\* ResponseSanitizer.DISCLAIMER
DISCLAIMER == <<
    "\n", "\n", WarningSign, VariationSelector16, " ", "*", "S", "o", "m",
    "e", " ", "d", "a", "t", "a", " ", "p", "o", "i", "n", "t", "s", " ",
    "i", "n", " ", "t", "h", "i", "s", " ", "r", "e", "s", "p", "o", "n",
    "s", "e", " ", "c", "o", "u", "l", "d", " ", "n", "o", "t", " ", "b",
    "e", " ", "v", "e", "r", "i", "f", "i", "e", "d", " ", "a", "g", "a",
    "i", "n", "s", "t", " ", "o", "u", "r", " ", "d", "a", "t", "a", "b",
    "a", "s", "e", ".", " ", "P", "l", "e", "a", "s", "e", " ", "v", "e",
    "r", "i", "f", "y", " ", "i", "n", "d", "e", "p", "e", "n", "d", "e",
    "n", "t", "l", "y", ".", "*">>

\* ResponseSanitizer.REJECTION_MESSAGE
REJECTION_MESSAGE == <<
    "I", " ", "a", "p", "o", "l", "o", "g", "i", "z", "e", ",", " ", "b",
    "u", "t", " ", "I", " ", "c", "a", "n", "n", "o", "t", " ", "p", "r",
    "o", "v", "i", "d", "e", " ", "a", " ", "r", "e", "l", "i", "a", "b",
    "l", "e", " ", "r", "e", "s", "p", "o", "n", "s", "e", " ", "f", "o",
    "r", " ", "t", "h", "i", "s", " ", "q", "u", "e", "r", "y", ".", " ",
    "S", "o", "m", "e", " ", "o", "f", " ", "t", "h", "e", " ", "d", "a",
    "t", "a", " ", "I", " ", "g", "e", "n", "e", "r", "a", "t", "e", "d",
    " ", "c", "o", "u", "l", "d", " ", "n", "o", "t", " ", "b", "e", " ",
    "v", "e", "r", "i", "f", "i", "e", "d", " ", "a", "g", "a", "i", "n",
    "s", "t", " ", "o", "u", "r", " ", "r", "e", "c", "o", "r", "d", "s",
    ".", " ", "P", "l", "e", "a", "s", "e", " ", "t", "r", "y", " ", "r",
    "e", "p", "h", "r", "a", "s", "i", "n", "g", " ", "y", "o", "u", "r",
    " ", "q", "u", "e", "r", "y", " ", "o", "r", " ", "a", "s", "k", "i",
    "n", "g", " ", "a", "b", "o", "u", "t", " ", "a", " ", "s", "p", "e",
    "c", "i", "f", "i", "c", " ", "a", "s", "p", "e", "c", "t", ".">>

\* "**[unverified]** "
UNVERIFIED_MARK == <<"*", "*", "[", "u", "n", "v", "e", "r", "i", "f", "i",
                     "e", "d", "]", "*", "*", " ">>

\* s[pos:].startswith(old) (1-based pos)
StartsAt(s, pos, old) ==
    /\ pos + Len(old) - 1 <= Len(s)
    /\ \A i \in 1..Len(old) : s[pos + i - 1] = old[i]

\* The positions of s at which old occurs, in increasing order.
Occurrences(s, old) ==
    SelectSeq([pos \in 1..Len(s) |-> pos], LAMBDA pos : StartsAt(s, pos, old))

\* str.replace(old, new) from position pos on: every non-overlapping
\* occurrence of old (not empty), left to right; starts holds the
\* positions at which old occurs.
RECURSIVE ReplaceFrom(_, _, _, _, _)
ReplaceFrom(s, pos, old, new, starts) ==
    IF \A k \in 1..Len(starts) : starts[k] < pos
    THEN SubSeq(s, pos, Len(s))
    ELSE LET k == CHOOSE k \in 1..Len(starts) :
                    /\ starts[k] >= pos
                    /\ \A j \in 1..(k - 1) : starts[j] < pos
         IN  SubSeq(s, pos, starts[k] - 1) \o new
             \o ReplaceFrom(s, starts[k] + Len(old), old, new, starts)

\* s.replace(old, new)
StrReplace(s, old, new) == ReplaceFrom(s, 1, old, new, Occurrences(s, old))

\* The marking of one mismatch in sanitize: a replace of every occurrence
\* of its raw text.
FlagMismatch(flagged, mismatch) ==
    LET raw == mismatch.raw_text
    IN  IF Len(raw) > 0
        THEN StrReplace(flagged, raw, UNVERIFIED_MARK \o raw)
        ELSE flagged

\* The loop "for mismatch in verdict.mismatches" of sanitize.
RECURSIVE FlagAll(_, _, _)
FlagAll(flagged, mismatches, i) ==
    IF i > Len(mismatches) THEN flagged
    ELSE FlagAll(FlagMismatch(flagged, mismatches[i]), mismatches, i + 1)

\* ResponseSanitizer.sanitize, as the mutant that passes a rejected
\* narrative through under the rejection message.
SanitizeKeepsNarrative(narrative, vd) ==
    IF vd.verdict = "clean" THEN narrative
    ELSE IF vd.verdict = "hallucination"
    THEN REJECTION_MESSAGE \o narrative
    ELSE IF vd.verdict = "warning"
    THEN FlagAll(narrative, vd.mismatches, 1) \o DISCLAIMER
    ELSE narrative

\* ResponseSanitizer.sanitize, as the mutant that adds the disclaimer to
\* a clean narrative too.
SanitizeCleanWithDisclaimer(narrative, vd) ==
    IF vd.verdict = "clean" THEN narrative \o DISCLAIMER
    ELSE IF vd.verdict = "hallucination" THEN REJECTION_MESSAGE
    ELSE IF vd.verdict = "warning"
    THEN FlagAll(narrative, vd.mismatches, 1) \o DISCLAIMER
    ELSE narrative

\* ResponseSanitizer.sanitize(narrative, verdict)
sanitize(narrative, vd) ==
    IF vd.verdict = "clean" THEN narrative
    ELSE IF vd.verdict = "hallucination" THEN REJECTION_MESSAGE
    ELSE IF vd.verdict = "warning"
    THEN FlagAll(narrative, vd.mismatches, 1) \o DISCLAIMER
    ELSE narrative

(***************************************************************************)
(* HallucinationGuard (hallucination_adapter.py)                           *)
(***************************************************************************)
\* Truth value of a tree in a Python condition.
Truthy(obj) ==
    CASE obj.t \in {"num", "bool"} -> obj.v # DecZero
      [] obj.t = "null" -> FALSE
      [] obj.t = "str" -> TRUE
      [] OTHER -> Len(obj.kids) > 0

\* p.get(key): None when the key is absent.
DictGet(p, key) ==
    IF \E i \in 1..Len(p.keys) : p.keys[i] = key
    THEN p.kids[CHOOSE i \in 1..Len(p.keys) : p.keys[i] = key]
    ELSE JNull

\* [p.get(key) for p in source_data if p.get(key)]
RECURSIVE TruthyValues(_, _)
TruthyValues(source_data, key) ==
    IF Len(source_data) = 0 THEN <<>>
    ELSE (IF Truthy(DictGet(Head(source_data), key))
          THEN <<DictGet(Head(source_data), key)>> ELSE <<>>)
         \o TruthyValues(Tail(source_data), key)

\* The tool_outputs dict HallucinationGuard.verify builds from source_data.
GuardToolOutputs(source_data) ==
    JDict(<<"retrieved_properties", "price_values",
            "price_per_sqft_values", "area_values">>,
          <<JList(source_data),
            JList(TruthyValues(source_data, "price")),
            JList(TruthyValues(source_data, "price_per_sqft")),
            JList(TruthyValues(source_data, "carpet_area_sqft"))>>)

\* not ai_response or not ai_response.strip()
IsBlank(text) == \A i \in 1..Len(text) : text[i] \in SPACE

\* HallucinationGuard.verify hands the text to its judge, as the mutant
\* without the early return for a blank text.
GuardCallsJudgeAlways(ai_response) == TRUE

\* HallucinationGuard.verify hands the text to its judge unless
\* "not ai_response or not ai_response.strip()".
GuardCallsJudge(ai_response) == ~IsBlank(ai_response)

\* The text HallucinationGuard.verify returns for a verdict: sanitized for
\* a hallucination, the original otherwise.
GuardText(ai_response, vd) ==
    IF vd.verdict = "hallucination"
    THEN sanitize(ai_response, vd)
    ELSE ai_response

\* The pair HallucinationGuard.verify returns after the judge gave vd.
GuardReturn(ai_response, vd) ==
    [text |-> GuardText(ai_response, vd),
     meta |-> [passed |-> vd.verdict \in {"clean", "warning"},
               verdict |-> vd.verdict,
               flagged_count |-> vd.unverified_claims,
               total_claims |-> vd.total_claims,
               action |-> vd.action_taken]]

\* The pair of the early return of HallucinationGuard.verify; the "action"
\* key is absent ("").
GuardBlankReturn(ai_response) ==
    [text |-> ai_response,
     meta |-> [passed |-> TRUE, verdict |-> "clean", flagged_count |-> 0,
               total_claims |-> 0, action |-> ""]]

\* HallucinationGuard.verify(ai_response, source_data)
GuardVerifyResult(ai_response, source_data) ==
    IF IsBlank(ai_response)
    THEN GuardBlankReturn(ai_response)
    ELSE GuardReturn(ai_response,
                     VerdictFor(extract_numeric_claims(ai_response),
                                GuardToolOutputs(source_data), source_data))

(***************************************************************************)
(* Exact fractions: the scores of the rank fuser and of the re-ranker are  *)
(* sums of a few small rationals, on which Python's floats order and round *)
(* as the exact values do.                                                 *)
(***************************************************************************)
\* Fractions n / d with d > 0, in lowest terms.
RECURSIVE Gcd(_, _)
Gcd(x, y) == IF y = 0 THEN x ELSE Gcd(y, x % y)

Frac(n, d) ==
    LET g == Gcd(IntAbs(n), d)
    IN  IF n = 0 THEN [n |-> 0, d |-> 1] ELSE [n |-> n \div g, d |-> d \div g]

FracAdd(x, y) == Frac(x.n * y.d + y.n * x.d, x.d * y.d)
\* a / b < c / d for a, c >= 0 and b, d > 0, by whole parts and then by
\* the remainders (no product that could leave the integer range)
RECURSIVE LtPos(_, _, _, _)
LtPos(a, b, c, d) ==
    IF a \div b # c \div d THEN a \div b < c \div d
    ELSE IF c % d = 0 THEN FALSE
    ELSE IF a % b = 0 THEN TRUE
    ELSE LtPos(d, c % d, b, a % b)

\* x < y
FracLt(x, y) ==
    IF x.n < 0 /\ y.n < 0 THEN LtPos(0 - y.n, y.d, 0 - x.n, x.d)
    ELSE IF x.n < 0 THEN TRUE
    ELSE IF y.n < 0 THEN FALSE
    ELSE LtPos(x.n, x.d, y.n, y.d)

FracLe(x, y) == ~FracLt(y, x)
FracMin(x, y) == IF FracLe(x, y) THEN x ELSE y
FracNeg(x) == [n |-> 0 - x.n, d |-> x.d]

\* round() of the fraction to an integer (ties to the even integer).
FracRound(x) ==
    LET q == x.n \div x.d
        r2 == 2 * (x.n % x.d)
    IN  IF r2 < x.d THEN q
        ELSE IF r2 > x.d THEN q + 1
        ELSE IF q % 2 = 0 THEN q ELSE q + 1

(***************************************************************************)
(* RankFuser (reranker.py).  A score is an exact fraction.                 *)
(***************************************************************************)
_RRF_K == 60

\* The weights 1.0, 0.8 and 0.6 of the vector, keyword and spatial lists,
\* in tenths.
RRF_WEIGHTS == <<10, 8, 6>>

\* weight * (1.0 / (_RRF_K + rank)) for a weight in tenths
RankTerm(weight, rank) == Frac(weight, 10 * (_RRF_K + rank))

\* scores.get(pid, 0.0) + term, as the mutant that forgets the score
\* accumulated so far.
AddScoreOverwrite(score, term) == term

\* scores.get(pid, 0.0) + term
AddScore(score, term) == FracAdd(score, term)

\* for rank, pid in enumerate(rank_list, start=1): the assignments
\* "scores[pid] = ..." of one list, each with the term it adds.
ScoreList(rank_list, weight) ==
    [rank \in 1..Len(rank_list) |->
       [id |-> rank_list[rank], term |-> RankTerm(weight, rank)]]

\* The assignments of the three lists in the order in which the loops make
\* them.
Assignments(vector_hits, keyword_hits, spatial_hits) ==
    ScoreList(vector_hits, RRF_WEIGHTS[1])
    \o ScoreList(keyword_hits, RRF_WEIGHTS[2])
    \o ScoreList(spatial_hits, RRF_WEIGHTS[3])

\* scores[pid] after the first n assignments to it: each adds its term to
\* the value the one before left, the first to 0.0.
RECURSIVE Accumulated(_, _)
Accumulated(terms, n) ==
    IF n = 0 THEN Frac(0, 1)
    ELSE AddScore(Accumulated(terms, n - 1), terms[n].term)

\* The assignments to scores[pid], in order.
AssignmentsTo(assignments, pid) ==
    SelectSeq(assignments, LAMBDA a : a.id = pid)

\* The places of the assignments that insert a new key.
Insertions(assignments) ==
    SelectSeq([k \in 1..Len(assignments) |-> k],
              LAMBDA k : \A j \in 1..(k - 1) :
                           assignments[j].id # assignments[k].id)

\* The item of scores.items() whose key the assignment at place k inserts.
ScoreItem(assignments, k) ==
    [id |-> assignments[k].id,
     score |-> Accumulated(AssignmentsTo(assignments, assignments[k].id),
                           Len(AssignmentsTo(assignments,
                                             assignments[k].id)))]

\* scores.items() after the loops: a dict keeps its keys in the order of
\* their insertion.
ScoreItems(assignments, insertions) ==
    Listed([p \in 1..Len(insertions) |->
              ScoreItem(assignments, insertions[p])])

\* The place of item i in the stable descending order of the keys: behind
\* every item of greater key and every earlier item of equal key.
Position(keys, i) ==
    1 + Cardinality({j \in 1..Len(keys) :
                       \/ FracLt(keys[i], keys[j])
                       \/ j < i /\ ~FracLt(keys[j], keys[i])})

Positions(keys) == Listed([i \in 1..Len(keys) |-> Position(keys, i)])

\* The items, each at its place.
Arranged(items, positions) ==
    [p \in 1..Len(items) |->
       items[CHOOSE i \in 1..Len(items) : positions[i] = p]]

\* sorted(items, key=..., reverse=True) for the list keys of the items'
\* keys (fractions): a stable sort, so items of equal key keep their order.
SortedDescending(items, keys) == Arranged(items, Positions(Listed(keys)))

RrfScore(item) == item.score

\* sorted(scores.items(), key=lambda x: x[1], reverse=True), as the mutant
\* that sorts without reverse.
SortFusedAscending(scores) ==
    LET asc == SortedDescending(scores, [i \in 1..Len(scores) |->
                                          RrfScore(scores[i])])
    IN  [p \in 1..Len(asc) |-> asc[Len(asc) + 1 - p]]

\* sorted(scores.items(), key=lambda x: x[1], reverse=True), as the mutant
\* whose sort puts the later of two equal items first.
SortFusedUnstable(scores) ==
    LET n == Len(scores)
        back == [i \in 1..n |-> scores[n + 1 - i]]
    IN  SortedDescending(back, [i \in 1..n |-> RrfScore(back[i])])

\* sorted(scores.items(), key=lambda x: x[1], reverse=True)
SortFused(scores) ==
    SortedDescending(scores, [i \in 1..Len(scores) |-> RrfScore(scores[i])])

\* reciprocal_rank_fusion(vector_hits, keyword_hits, spatial_hits)
reciprocal_rank_fusion(vector_hits, keyword_hits, spatial_hits) ==
    SortFused(
      ScoreItems(Assignments(vector_hits, keyword_hits, spatial_hits),
                 Insertions(Assignments(vector_hits, keyword_hits,
                                        spatial_hits))))

(***************************************************************************)
(* FeatureReranker (reranker.py).  A candidate is a dict: a function from  *)
(* its keys to tagged values.  A score is a number of millionths.          *)
(***************************************************************************)
PNone == [t |-> "none", v |-> 0]
PInt(n) == [t |-> "int", v |-> n]
PScore(millionths) == [t |-> "float", v |-> millionths]
PStr(s) == [t |-> "str", v |-> s]
PBool(b) == [t |-> "bool", v |-> b]
PList(n) == [t |-> "list", v |-> n]

\* prop.get(key)
PGet(prop, key) == IF key \in DOMAIN prop THEN prop[key] ELSE PNone

\* Truth value of a candidate's field in a Python condition.
PTruthy(x) ==
    CASE x.t = "none" -> FALSE
      [] x.t = "bool" -> x.v
      [] x.t = "str" -> Len(x.v) > 0
      [] OTHER -> x.v # 0

\* str.lower()
Lower(text) ==
    [i \in 1..Len(text) |->
       IF \E j \in 1..26 : UpperLetters[j] = text[i]
       THEN LowerLetters[CHOOSE j \in 1..26 : UpperLetters[j] = text[i]]
       ELSE text[i]]

\* set(re.findall(r'\b\w+\b', text)): the maximal runs of word characters
\* of text.
Tokens(text) ==
    {SubSeq(text, run[1], run[2]) :
       run \in {r \in (1..Len(text)) \X (1..Len(text)) :
                  /\ r[1] <= r[2]
                  /\ \A i \in r[1]..r[2] : text[i] \in WORD
                  /\ r[1] = 1 \/ text[r[1] - 1] \notin WORD
                  /\ r[2] = Len(text) \/ text[r[2] + 1] \notin WORD}}

\* sub in text
Contains(sub, text) ==
    \E i \in 1..(Len(text) - Len(sub) + 1) :
      \A k \in 1..Len(sub) : text[i + k - 1] = sub[k]

\* (\d+(?:\.\d+)?)
ReDecimal == <<ReOpen, RePlus(DIGIT),
               ReOpt(<<ReChar({"."}), RePlus(DIGIT)>>), ReClose>>

\* (\d+(?:\.\d+)?)\s*(?:lakh|lakhs|l\b), as the mutant without l\b
LakhPatternWordsOnly ==
    Pattern("lakh",
            ReDecimal \o <<ReStar(SPACE),
              ReAlt(<<ReLit(<<"l", "a", "k", "h">>),
                      ReLit(<<"l", "a", "k", "h", "s">>)>>)>>)

\* (\d+(?:\.\d+)?)\s*(?:lakh|lakhs|l\b); after the word character l, \b
\* holds where no word character follows.
LakhPattern ==
    Pattern("lakh",
            ReDecimal \o <<ReStar(SPACE),
              ReAlt(<<ReLit(<<"l", "a", "k", "h">>),
                      ReLit(<<"l", "a", "k", "h", "s">>),
                      <<ReChar({"l"}), ReNotAhead(WORD)>>>>)>>)

\* (\d+(?:\.\d+)?)\s*(?:cr|crore|crores)
CrorePattern ==
    Pattern("crore",
            ReDecimal \o <<ReStar(SPACE),
              ReAlt(<<ReLit(<<"c", "r">>),
                      ReLit(<<"c", "r", "o", "r", "e">>),
                      ReLit(<<"c", "r", "o", "r", "e", "s">>)>>)>>)

\* (\d)\s*(?:bhk|bedroom|bed)
BhkPattern ==
    Pattern("bhk",
            <<ReOpen, ReChar(DIGIT), ReClose, ReStar(SPACE),
              ReAlt(<<ReLit(<<"b", "h", "k">>),
                      ReLit(<<"b", "e", "d", "r", "o", "o", "m">>),
                      ReLit(<<"b", "e", "d">>)>>)>>)

\* re.search(pattern, text): group 1 of the leftmost match; ok = FALSE
\* stands for None.
Search(pat, text) ==
    LET ms == FindIter(pat, text, 1)
    IN  IF Len(ms) = 0 THEN [ok |-> FALSE, group |-> <<>>]
        ELSE [ok |-> TRUE, group |-> Slice(text, ms[1].gs, ms[1].ge)]

\* float(match.group(1)) * scale for scale = 10^k, as a fraction
GroupTimes(group, k) ==
    LET x == DecShift(ParseFloat(group).value, k)
    IN  IF x.e >= 0 THEN Frac(x.m * Pow10(x.e), 1)
        ELSE Frac(x.m, Pow10(0 - x.e))

\* budget_in_rupees of cross_score: none = TRUE stands for None.
BudgetOf(query_lower) ==
    LET lakh_match == Search(LakhPattern, query_lower)
        cr_match == Search(CrorePattern, query_lower)
    IN  IF lakh_match.ok
        THEN [none |-> FALSE, value |-> GroupTimes(lakh_match.group, 5)]
        ELSE IF cr_match.ok
        THEN [none |-> FALSE, value |-> GroupTimes(cr_match.group, 7)]
        ELSE [none |-> TRUE, value |-> Frac(0, 1)]

\* target_bhk of cross_score: 0 stands for None (both are false in the
\* condition that reads it).
TargetBhkOf(query_lower) ==
    LET bhk_match == Search(BhkPattern, query_lower)
    IN  IF bhk_match.ok THEN DigitValue(bhk_match.group[1]) ELSE 0

\* Signal 1 of cross_score, in millionths: overlap * 0.4
OverlapSignal(query_tokens, prop) ==
    LET title == IF PTruthy(PGet(prop, "title"))
                 THEN Lower(PGet(prop, "title").v) ELSE <<>>
        locality == IF PTruthy(PGet(prop, "locality"))
                    THEN Lower(PGet(prop, "locality").v) ELSE <<>>
        prop_tokens == Tokens(title \o <<" ">> \o locality)
    IN  IF query_tokens # {} /\ prop_tokens # {}
        THEN Frac(400000 * Cardinality(query_tokens \cap prop_tokens),
                  Cardinality(query_tokens) + 1)
        ELSE Frac(0, 1)

\* The budget adjustment for a price and a budget that are not zero, in
\* millionths, as the mutant without the cap of the penalty.
BudgetAdjustmentUncapped(price, budget) ==
    LET ratio == Frac(price * budget.d, budget.n)
    IN  IF FracLe(Frac(price, 1), budget)
        THEN Frac(300000 * ratio.n, ratio.d)
        ELSE FracNeg(Frac(500000 * (ratio.n - ratio.d), ratio.d))

\* The budget adjustment for a price and a budget that are not zero, in
\* millionths: 0.3 * ratio, or - min(0.2, over_pct * 0.5).
BudgetAdjustment(price, budget) ==
    LET ratio == Frac(price * budget.d, budget.n)
    IN  IF FracLe(Frac(price, 1), budget)
        THEN Frac(300000 * ratio.n, ratio.d)
        ELSE FracNeg(FracMin(Frac(200000, 1),
                             Frac(500000 * (ratio.n - ratio.d), ratio.d)))

\* Signal 2 of cross_score
BudgetSignal(budget, prop) ==
    IF ~budget.none /\ budget.value.n # 0 /\ PTruthy(PGet(prop, "price"))
    THEN BudgetAdjustment(PGet(prop, "price").v, budget.value)
    ELSE Frac(0, 1)

\* Signal 3 of cross_score
BhkSignal(target_bhk, prop) ==
    IF target_bhk # 0 /\ PGet(prop, "bedrooms").t # "none"
    THEN IF PGet(prop, "bedrooms").v = target_bhk THEN Frac(250000, 1)
         ELSE IF IntAbs(PGet(prop, "bedrooms").v - target_bhk) = 1
         THEN Frac(100000, 1)
         ELSE Frac(0, 1)
    ELSE Frac(0, 1)

\* Signal 4 of cross_score
LocalitySignal(query_lower, prop) ==
    IF PTruthy(PGet(prop, "locality"))
       /\ Contains(Lower(PGet(prop, "locality").v), query_lower)
    THEN Frac(350000, 1)
    ELSE Frac(0, 1)

\* Signal 5 of cross_score
TrustSignal(prop) ==
    FracAdd(IF PTruthy(PGet(prop, "is_verified"))
            THEN Frac(100000, 1) ELSE Frac(0, 1),
            IF PTruthy(PGet(prop, "is_featured"))
            THEN Frac(50000, 1) ELSE Frac(0, 1))

\* combined_score and the five signals of one candidate, in the order
\* cross_score adds them to the score.
Signals(query_lower, prop) ==
    <<IF PTruthy(PGet(prop, "combined_score"))
      THEN Frac(PGet(prop, "combined_score").v, 1)
      ELSE Frac(0, 1),
      OverlapSignal(Tokens(query_lower), prop),
      BudgetSignal(BudgetOf(query_lower), prop),
      BhkSignal(TargetBhkOf(query_lower), prop),
      LocalitySignal(query_lower, prop),
      TrustSignal(prop)>>

\* The sum of the signals i, i + 1, ... of the list.
RECURSIVE SignalSum(_, _)
SignalSum(signals, i) ==
    IF i = Len(signals) THEN signals[i]
    ELSE FracAdd(signals[i], SignalSum(signals, i + 1))

\* round(score, 6) of one candidate, in millionths.
ScoreOf(query, prop) ==
    FracRound(SignalSum(Signals(Lower(query), prop), 1))

\* {**prop, "cross_score": round(score, 6)}
WithCrossScore(prop, millionths) ==
    [key \in DOMAIN prop \cup {"cross_score"} |->
       IF key = "cross_score" THEN PScore(millionths) ELSE prop[key]]

CrossKey(prop) == Frac(prop["cross_score"].v, 1)

\* sorted(scored, key=lambda x: x["cross_score"], reverse=True), as the
\* mutant that puts the later of two equal candidates first.
SortScoredUnstable(scored) ==
    LET n == Len(scored)
        back == [i \in 1..n |-> scored[n + 1 - i]]
    IN  SortedDescending(back, [i \in 1..n |-> CrossKey(back[i])])

\* sorted(scored, key=lambda x: x["cross_score"], reverse=True)
SortScored(scored) ==
    SortedDescending(scored, [i \in 1..Len(scored) |-> CrossKey(scored[i])])

\* cross_score(query, properties)
cross_score(query, properties) ==
    SortScored([i \in 1..Len(properties) |->
                  WithCrossScore(properties[i],
                                 ScoreOf(query, properties[i]))])

(***************************************************************************)
(* ContextExtractor (reranker.py)                                          *)
(***************************************************************************)
DIGIT_CHARS == <<"0", "1", "2", "3", "4", "5", "6", "7", "8", "9">>

\* The decimal digits of n >= 0.
RECURSIVE IntToStr(_)
IntToStr(n) ==
    IF n < 10 THEN <<DIGIT_CHARS[n + 1]>>
    ELSE IntToStr(n \div 10) \o <<DIGIT_CHARS[(n % 10) + 1]>>

\* str(x) for an identifier: a string, an integer or None.
PyStr(x) ==
    CASE x.t = "str" -> x.v
      [] x.t = "none" -> <<"N", "o", "n", "e">>
      [] OTHER -> IntToStr(x.v)

\* The keys of ctx that are read from the candidate with p.get(key).
CONTEXT_KEYS == {"title", "locality", "city", "price", "price_per_sqft",
                 "bedrooms", "bathrooms", "carpet_area_sqft",
                 "property_type", "listing_type", "status", "builder_name",
                 "project_name", "rera_id", "cross_score"}

\* The dict ctx of extract_top_k_context for the candidate p.
ContextDict(p) ==
    [key \in CONTEXT_KEYS \cup {"property_id", "is_verified"} |->
       CASE key = "property_id" ->
              PStr(IF "id" \in DOMAIN p THEN PyStr(p["id"]) ELSE <<>>)
         [] key = "is_verified" ->
              IF "is_verified" \in DOMAIN p THEN p["is_verified"]
              ELSE PBool(FALSE)
         [] OTHER -> PGet(p, key)]

\* {k2: v for k2, v in ctx.items() if v is not None}
StripNone(ctx) ==
    [key \in {k2 \in DOMAIN ctx : ctx[k2].t # "none"} |-> ctx[key]]

\* extract_top_k_context(properties, k) for k >= 0
extract_top_k_context(properties, k) ==
    [i \in 1..(IF k < Len(properties) THEN k ELSE Len(properties)) |->
       StripNone(ContextDict(properties[i]))]

(***************************************************************************)
(* Inputs of the model                                                     *)
(***************************************************************************)
\* The pieces of text a generated narrative is made of.
Fragments == <<
    <<"R", "s", " ", "1", "0", "0", " ", "2", " ", "B", "H", "K", " ", "1",
     "5", "%", " ">>,
    <<"5", "%", " ">>,
    <<"d", "a", "t", "a", " ">>,
    <<"8", "5", " ", "l", "a", "k", "h", " ">>,
    <<" ">>,
    <<"C", "A", "G", "R", " ", "o", "f", " ", "8", ".", "4", "5", "%", " ">>,
    <<"C", "A", "G", "R", " ", "i", "s", " ", "8", ".", "4", "5", "%", ".",
      " ", "G", "r", "o", "w", "t", "h", " ", "a", "l", "s", "o", " ", "h",
      "i", "t", " ", "2", "5", "%", ".">>
>>

EmptyDict == JDict(<<>>, <<>>)

\* The tool_outputs a caller hands to HallucinationJudge.verify.
ToolOutputsDomain == {
    EmptyDict,
    JDict(<<"cagr_percent">>, <<JNum(Dec(845, 0 - 2))>>),
    JDict(<<"vals">>, <<JList(<<JNum(Dec(100, 0)), JNum(Dec(15, 0))>>)>>),
    JDict(<<"cagr", "price">>,
          <<JDict(<<"cagr_percent">>, <<JNum(Dec(845, 0 - 2))>>),
            JNum(Dec(100, 0))>>),
    JDict(<<"price", "is_verified", "title", "builder_id">>,
          <<JNum(Dec(8500000, 0)), JBool(TRUE), JStr, JNull>>)
}

\* The retrieved records (retrieved_data of the judge, source_data of the
\* guard); <<>> is no record.
RecordsDomain == {
    <<>>,
    <<JDict(<<"price", "price_per_sqft", "bedrooms">>,
            <<JNum(Dec(100, 0)), JNum(Dec(155, 0 - 1)), JNum(Dec(2, 0))>>)>>,
    <<JDict(<<"price", "is_verified">>,
            <<JNum(Dec(8500000, 0)), JBool(TRUE)>>),
      JDict(<<"title", "carpet_area_sqft">>, <<JStr, JNum(Dec(5, 0))>>)>>
}

\* The narratives handed to one judge instance in a row.
SessionNarratives == {Fragments[1], Fragments[2], Fragments[3]}

\* The queries of the model.
Queries == {
    <<"6", "0", " ", "l", "a", "k", "h", "s">>,
    <<"2", " ", "C", "r">>,
    <<"1", ".", "5", " ", "c", "r", "o", "r", "e">>,
    <<"f", "l", "a", "t", " ", "u", "n", "d", "e", "r", " ", "5", "0", " ",
      "l">>,
    <<"3", " ", "B", "H", "K", " ", "f", "l", "a", "t", " ", "i", "n", " ",
      "A", "d", "y", "a", "r">>,
    <<"2", " ", "c", "r", " ", "o", "r", " ", "6", "0", " ", "l", "a", "k",
      "h">>,
    <<"f", "l", "a", "t">>,
    <<"v", "i", "l", "l", "a", " ", "4", " ", "b", "e", "d">>,
    <<"0", " ", "b", "h", "k", " ", "s", "t", "u", "d", "i", "o">>
}

\* The candidates the search returns, one per identifier.
CandidateDomain == {
    [id |-> PStr(<<"p", "1">>), title |-> PStr(<<"F", "l", "a", "t">>),
     locality |-> PStr(<<"A", "d", "y", "a", "r">>),
     city |-> PStr(<<"C", "h", "e", "n", "n", "a", "i">>),
     price |-> PInt(6000000), bedrooms |-> PInt(3),
     is_verified |-> PBool(TRUE), combined_score |-> PScore(16393),
     images |-> PList(2)],
    [id |-> PStr(<<"p", "2">>), title |-> PNone, price |-> PInt(12000000),
     bedrooms |-> PInt(2), is_featured |-> PBool(TRUE),
     is_verified |-> PNone, amenities |-> PList(3)],
    [id |-> PInt(3), price |-> PInt(3000000), combined_score |-> PNone,
     bedrooms |-> PInt(0),
     locality |-> PStr(<<"A", "n", "n", "a", " ", "N", "a", "g", "a", "r">>),
     price_history |-> PList(1)],
    [id |-> PStr(<<"p", "4">>), price |-> PInt(20000000),
     is_verified |-> PBool(FALSE), bedrooms |-> PInt(4)],
    [id |-> PNone, title |-> PStr(<<"V", "i", "l", "l", "a">>),
     price |-> PInt(15000000)],
    [title |-> PStr(<<"P", "l", "o", "t">>), price |-> PInt(8400000)]
}

\* The identifiers the searches return.
PropertyIds == {"p1", "p2", "p3", "p4"}

\* The leaves a reference structure is built from.
LeafDomain == {
    JNum(DecZero), JNum(Dec(8500000, 0)), JNum(Dec(845, 0 - 2)),
    JNum(Dec(12346, 0 - 5)), JNum(Dec(0 - 32, 0 - 1)),
    JBool(TRUE), JBool(FALSE), JStr, JNull
}

(***************************************************************************)
(* State                                                                   *)
(***************************************************************************)
VARIABLES
    narrative,           \* the generated text of the current request
    pieces,              \* number of fragments generated so far
    pc,                  \* "compose", "judged", "sanitized" or "guarded"
    tool_outputs,        \* tool_outputs of the last verify call
    retrieved_data,      \* retrieved_data of the last verify call
    claims,              \* local claims of the last verify call
    verdict,             \* the HallucinationVerdict of the last verify call
    sanitized,           \* result of the last ResponseSanitizer.sanitize
    guard_result,        \* pair returned by the last HallucinationGuard.verify
    _verification_count, \* HallucinationJudge._verification_count
    _mismatch_count,     \* HallucinationJudge._mismatch_count
    obj,                 \* a reference structure under construction
    nodes,               \* number of construction steps of obj
    flat,                \* result of the last flatten_tool_values(obj)
    ipc,                 \* "build" or "flattened"
    vector_hits,         \* ranked identifiers of the vector search
    keyword_hits,        \* ranked identifiers of the keyword search
    spatial_hits,        \* ranked identifiers of the spatial search
    fused,               \* result of the last reciprocal_rank_fusion
    rpc,                 \* "collect" or "fused"
    query,               \* the query text of the request
    properties,          \* the candidates handed to cross_score
    budget_in_rupees,    \* local budget_in_rupees of the last cross_score
    reranked,            \* result of the last cross_score
    top_k,               \* k of the last extract_top_k_context
    context,             \* result of the last extract_top_k_context
    xpc,                 \* "query", "gather", "reranked" or "extracted"
    caller_pc,           \* position of each concurrent caller in verify
    caller_reg,          \* the counter value a caller has read for its +=
    request_pc,          \* "running", "counted" or "failed" per request
    total_queries,       \* _metrics["total_queries"] of the routes module
    errors,              \* _metrics["errors"] of the routes module
    stage,               \* position of a /query request in its handler
    route_rows,          \* the candidates left after fusion and re-ranking
    stream,              \* request.stream
    raw_summary,         \* local raw_summary of the handler (or None)
    ai_summary,          \* local ai_summary of the handler (or None)
    ai_verified,         \* local ai_verified of the handler
    events,              \* the calls the handler has made, in order
    response             \* what the handler returned or raised

vars == <<narrative, pieces, pc, tool_outputs, retrieved_data, claims,
          verdict, sanitized, guard_result, _verification_count,
          _mismatch_count, obj, nodes, flat, ipc, vector_hits,
          keyword_hits, spatial_hits, fused, rpc, query, properties,
          budget_in_rupees, reranked, top_k, context, xpc, caller_pc,
          caller_reg, request_pc, total_queries, errors, stage, route_rows,
          stream, raw_summary, ai_summary, ai_verified, events, response>>

fusionVars == <<vector_hits, keyword_hits, spatial_hits, fused, rpc>>

rerankVars == <<query, properties, budget_in_rupees, reranked, top_k, context,
                xpc>>

requestVars == <<narrative, pieces, pc, tool_outputs, retrieved_data, claims,
                 verdict, sanitized, guard_result, _verification_count,
                 _mismatch_count>>

indexVars == <<obj, nodes, flat, ipc>>

counterVars == <<caller_pc, caller_reg, request_pc, total_queries, errors>>

routeVars == <<stage, route_rows, stream, raw_summary, ai_summary,
               ai_verified, events, response>>

\* A text of the handler that may be None.
NoText == [none |-> TRUE, text |-> <<>>]
SomeText(t) == [none |-> FALSE, text |-> t]

NoResponse == [status |-> 0, results |-> 0, ai_summary |-> NoText,
               ai_verified |-> FALSE]

\* The concurrent callers of the shared judge; the concurrent requests.
Callers == 1..MaxCallers

NoGuardResult == [text |-> <<>>,
                  meta |-> [passed |-> FALSE, verdict |-> "",
                            flagged_count |-> 0, total_claims |-> 0,
                            action |-> ""]]

Init ==
    /\ narrative = <<>>
    /\ pieces = 0
    /\ pc = "compose"
    /\ tool_outputs = EmptyDict
    /\ retrieved_data = <<>>
    /\ claims = <<>>
    /\ verdict = HallucinationVerdict
    /\ sanitized = <<>>
    /\ guard_result = NoGuardResult
    /\ _verification_count = 0
    /\ _mismatch_count = 0
    /\ obj = EmptyDict
    /\ nodes = 0
    /\ flat = {}
    /\ ipc = "build"
    /\ vector_hits = <<>>
    /\ keyword_hits = <<>>
    /\ spatial_hits = <<>>
    /\ fused = <<>>
    /\ rpc = "collect"
    /\ query = <<>>
    /\ properties = <<>>
    /\ budget_in_rupees = [none |-> TRUE, value |-> Frac(0, 1)]
    /\ reranked = <<>>
    /\ top_k = 0
    /\ context = <<>>
    /\ xpc = "query"
    /\ caller_pc = [t \in Callers |-> "idle"]
    /\ caller_reg = [t \in Callers |-> 0]
    /\ request_pc = [r \in Callers |-> "running"]
    /\ total_queries = 0
    /\ errors = 0
    /\ stage = "start"
    /\ route_rows = <<>>
    /\ stream = FALSE
    /\ raw_summary = NoText
    /\ ai_summary = NoText
    /\ ai_verified = FALSE
    /\ events = <<>>
    /\ response = NoResponse

(***************************************************************************)
(* One request: a narrative is generated, then checked by the judge and    *)
(* sanitized, or handed to the production adapter.                         *)
(***************************************************************************)
\* The external generation call yields one more piece of the narrative.
Generate(f) ==
    /\ pc = "compose"
    /\ pieces < MaxPieces
    /\ narrative' = narrative \o Fragments[f]
    /\ pieces' = pieces + 1
    /\ UNCHANGED <<pc, tool_outputs, retrieved_data, claims, verdict,
                   sanitized, guard_result, _verification_count,
                   _mismatch_count>>
    /\ UNCHANGED <<indexVars, fusionVars, rerankVars, counterVars,
                   routeVars>>

\* HallucinationJudge.verify(narrative, to, rd) on the shared judge, for
\* some tool outputs to and retrieved records rd.
JudgeVerify ==
    /\ pc = "compose"
    /\ LET cl == extract_numeric_claims(narrative)
       IN  \E to \in ToolOutputsDomain, rd \in RecordsDomain :
             LET vd == VerdictFor(cl, to, rd)
             IN  /\ claims' = cl
                 /\ verdict' = vd
                 /\ _mismatch_count' = IF vd.mismatch_detected
                                       THEN _mismatch_count + 1
                                       ELSE _mismatch_count
                 /\ tool_outputs' = to
                 /\ retrieved_data' = rd
    /\ _verification_count' = _verification_count + 1
    /\ pc' = "judged"
    /\ UNCHANGED <<narrative, pieces, sanitized, guard_result>>
    /\ UNCHANGED <<indexVars, fusionVars, rerankVars, counterVars,
                   routeVars>>

\* ResponseSanitizer.sanitize(narrative, verdict)
Sanitize ==
    /\ pc = "judged"
    /\ sanitized' = sanitize(narrative, verdict)
    /\ pc' = "sanitized"
    /\ UNCHANGED <<narrative, pieces, tool_outputs, retrieved_data, claims,
                   verdict, guard_result, _verification_count,
                   _mismatch_count>>
    /\ UNCHANGED <<indexVars, fusionVars, rerankVars, counterVars,
                   routeVars>>

\* Stage 8 of the /query route: HallucinationGuard().verify(raw_summary,
\* props_context) for some retrieved records, on the judge of a guard made
\* for this request.
GuardVerify ==
    /\ pc = "compose"
    /\ IF IsBlank(narrative)
       THEN /\ guard_result' = GuardBlankReturn(narrative)
            /\ UNCHANGED <<claims, verdict, tool_outputs, retrieved_data>>
       ELSE LET cl == extract_numeric_claims(narrative)
            IN  \E source_data \in RecordsDomain :
                  LET vd == VerdictFor(cl, GuardToolOutputs(source_data),
                                       source_data)
                  IN  /\ claims' = cl
                      /\ verdict' = vd
                      /\ guard_result' = GuardReturn(narrative, vd)
                      /\ tool_outputs' = GuardToolOutputs(source_data)
                      /\ retrieved_data' = source_data
    /\ pc' = "guarded"
    /\ UNCHANGED <<narrative, pieces, sanitized, _verification_count,
                   _mismatch_count>>
    /\ UNCHANGED <<indexVars, fusionVars, rerankVars, counterVars,
                   routeVars>>

Next ==
    \/ \E f \in 1..Len(Fragments) : Generate(f)
    \/ JudgeVerify
    \/ Sanitize
    \/ GuardVerify

Spec == Init /\ [][Next]_vars

(***************************************************************************)
(* Reference index: a structure is built and flattened.                    *)
(***************************************************************************)
\* One more leaf is put into the structure.
AddLeaf(leaf) ==
    /\ ipc = "build"
    /\ nodes < MaxNodes
    /\ obj.t \in {"dict", "list"}
    /\ obj' = [obj EXCEPT !.kids = Append(@, leaf),
                          !.keys = IF obj.t = "dict"
                                   THEN Append(@, "k") ELSE @]
    /\ nodes' = nodes + 1
    /\ UNCHANGED <<flat, ipc>>
    /\ UNCHANGED <<requestVars, fusionVars, rerankVars, counterVars,
                   routeVars>>

\* The structure becomes the only child of a new object or array.
Wrap(t) ==
    /\ ipc = "build"
    /\ nodes < MaxNodes
    /\ obj' = IF t = "dict" THEN JDict(<<"k">>, <<obj>>) ELSE JList(<<obj>>)
    /\ nodes' = nodes + 1
    /\ UNCHANGED <<flat, ipc>>
    /\ UNCHANGED <<requestVars, fusionVars, rerankVars, counterVars,
                   routeVars>>

\* flatten_tool_values(obj)
Flatten ==
    /\ ipc = "build"
    /\ flat' = flatten_tool_values(obj)
    /\ ipc' = "flattened"
    /\ UNCHANGED <<obj, nodes>>
    /\ UNCHANGED <<requestVars, fusionVars, rerankVars, counterVars,
                   routeVars>>

NextIndex ==
    \/ \E leaf \in LeafDomain : AddLeaf(leaf)
    \/ \E t \in {"dict", "list"} : Wrap(t)
    \/ Flatten

SpecIndex == Init /\ [][NextIndex]_vars

(***************************************************************************)
(* Fusion: the three searches return their ranked lists (the rows of a     *)
(* query, so no identifier twice in one list), then the lists are fused.   *)
(***************************************************************************)
Elements(list) == {list[i] : i \in 1..Len(list)}

\* The first rows of a long result of the vector search and of the keyword
\* search: other properties, ahead of the ones the model varies.
VectorHead == <<"o1", "o2", "o3", "o4", "o5", "o6", "o7", "o8", "o9", "o10",
                "o11", "o12", "o13", "o14", "o15", "o16", "o17", "o18",
                "o19">>
KeywordHead == <<"o1", "o2", "o3">>

\* The number of rows of a list that belong to the head it starts with.
HeadLen(list, head) ==
    IF Len(list) >= Len(head) /\ SubSeq(list, 1, Len(head)) = head
    THEN Len(head) ELSE 0

\* The vector search returns one more row.
VectorHit(pid) ==
    /\ rpc = "collect"
    /\ Len(vector_hits) - HeadLen(vector_hits, VectorHead) < MaxHits
    /\ pid \notin Elements(vector_hits)
    /\ vector_hits' = Append(vector_hits, pid)
    /\ UNCHANGED <<keyword_hits, spatial_hits, fused, rpc>>
    /\ UNCHANGED <<requestVars, indexVars, rerankVars, counterVars,
                   routeVars>>

\* The keyword search returns one more row.
KeywordHit(pid) ==
    /\ rpc = "collect"
    /\ Len(keyword_hits) - HeadLen(keyword_hits, KeywordHead) < MaxHits
    /\ pid \notin Elements(keyword_hits)
    /\ keyword_hits' = Append(keyword_hits, pid)
    /\ UNCHANGED <<vector_hits, spatial_hits, fused, rpc>>
    /\ UNCHANGED <<requestVars, indexVars, rerankVars, counterVars,
                   routeVars>>

\* The spatial search returns one more row.
SpatialHit(pid) ==
    /\ rpc = "collect"
    /\ Len(spatial_hits) < MaxHits
    /\ pid \notin Elements(spatial_hits)
    /\ spatial_hits' = Append(spatial_hits, pid)
    /\ UNCHANGED <<vector_hits, keyword_hits, fused, rpc>>
    /\ UNCHANGED <<requestVars, indexVars, rerankVars, counterVars,
                   routeVars>>

\* Stage 4 of the /query route: reciprocal_rank_fusion(vector_ids,
\* keyword_ids, spatial_ids)
Fuse ==
    /\ rpc = "collect"
    /\ fused' = reciprocal_rank_fusion(vector_hits, keyword_hits,
                                       spatial_hits)
    /\ rpc' = "fused"
    /\ UNCHANGED <<vector_hits, keyword_hits, spatial_hits>>
    /\ UNCHANGED <<requestVars, indexVars, rerankVars, counterVars,
                   routeVars>>

NextFusion ==
    \/ \E pid \in PropertyIds : VectorHit(pid)
    \/ \E pid \in PropertyIds : KeywordHit(pid)
    \/ \E pid \in PropertyIds : SpatialHit(pid)
    \/ Fuse

SpecFusion == Init /\ [][NextFusion]_vars

\* The vector search and the keyword search return the first rows of a
\* long result.
LongSearch ==
    /\ rpc = "collect"
    /\ vector_hits = <<>>
    /\ keyword_hits = <<>>
    /\ spatial_hits = <<>>
    /\ vector_hits' = VectorHead
    /\ keyword_hits' = KeywordHead
    /\ UNCHANGED <<spatial_hits, fused, rpc>>
    /\ UNCHANGED <<requestVars, indexVars, rerankVars, counterVars,
                   routeVars>>

\* Fusion of long results: the rows of the model follow the first rows.
NextFusionLong ==
    \/ LongSearch
    \/ (vector_hits # <<>> /\ NextFusion)

SpecFusionLong == Init /\ [][NextFusionLong]_vars

(***************************************************************************)
(* Session: one judge instance (get_hallucination_judge) serves a          *)
(* sequence of verify calls.                                               *)
(***************************************************************************)
\* HallucinationJudge.get_metrics on an instance whose counters are vc and
\* mc; mismatch_rate is an exact fraction.
get_metrics(vc, mc) ==
    [total_verifications |-> vc,
     total_mismatches |-> mc,
     mismatch_rate |-> IF vc > 0 THEN Frac(mc, vc) ELSE Frac(0, 1)]

\* judge.verify(text, to, rd) on the instance that served the calls so far
SessionVerify(text, to, rd) ==
    /\ pc \in {"compose", "judged"}
    /\ pieces = 0
    /\ _verification_count < MaxCalls
    /\ LET r == VerifyOn(_verification_count, _mismatch_count,
                         extract_numeric_claims(text), to, rd)
       IN  /\ verdict' = r.verdict
           /\ _verification_count' = r._verification_count
           /\ _mismatch_count' = r._mismatch_count
    /\ claims' = extract_numeric_claims(text)
    /\ narrative' = text
    /\ tool_outputs' = to
    /\ retrieved_data' = rd
    /\ pc' = "judged"
    /\ UNCHANGED <<pieces, sanitized, guard_result>>
    /\ UNCHANGED <<indexVars, fusionVars, rerankVars, counterVars,
                   routeVars>>

NextSession ==
    \E text \in SessionNarratives, to \in ToolOutputsDomain,
       rd \in RecordsDomain : SessionVerify(text, to, rd)

SpecSession == Init /\ [][NextSession]_vars

(***************************************************************************)
(* Rerank: a query arrives, the search returns its candidates, the         *)
(* candidates are reranked and the context of the first k is extracted.    *)
(***************************************************************************)
\* The request carries the query q.
Query(q) ==
    /\ xpc = "query"
    /\ query' = q
    /\ xpc' = "gather"
    /\ UNCHANGED <<properties, budget_in_rupees, reranked, top_k, context>>
    /\ UNCHANGED <<requestVars, indexVars, fusionVars, counterVars,
                   routeVars>>

\* The search returns one more row.
Candidate(c) ==
    /\ xpc = "gather"
    /\ Len(properties) < MaxCandidates
    /\ \A i \in 1..Len(properties) : properties[i] # c
    /\ properties' = Append(properties, c)
    /\ UNCHANGED <<query, budget_in_rupees, reranked, top_k, context, xpc>>
    /\ UNCHANGED <<requestVars, indexVars, fusionVars, counterVars,
                   routeVars>>

\* Stage 5 of the /query route: cross_score(request.query, rrf_sorted)
Rerank ==
    /\ xpc = "gather"
    /\ reranked' = cross_score(query, properties)
    /\ budget_in_rupees' = BudgetOf(Lower(query))
    /\ xpc' = "reranked"
    /\ UNCHANGED <<query, properties, top_k, context>>
    /\ UNCHANGED <<requestVars, indexVars, fusionVars, counterVars,
                   routeVars>>

\* Stage 6 of the /query route: extract_top_k_context(..., k)
ExtractContext(k) ==
    /\ xpc = "reranked"
    /\ context' = extract_top_k_context(reranked, k)
    /\ top_k' = k
    /\ xpc' = "extracted"
    /\ UNCHANGED <<query, properties, budget_in_rupees, reranked>>
    /\ UNCHANGED <<requestVars, indexVars, fusionVars, counterVars,
                   routeVars>>

NextRerank ==
    \/ \E q \in Queries : Query(q)
    \/ \E c \in CandidateDomain : Candidate(c)
    \/ Rerank
    \/ \E k \in 1..MaxK : ExtractContext(k)

SpecRerank == Init /\ [][NextRerank]_vars

(***************************************************************************)
(* Counters: several callers run verify on the one judge of                *)
(* get_hallucination_judge at the same time, and several requests of the   *)
(* /query route end at the same time.  The statement                       *)
(* self._verification_count += 1 is a read of the attribute followed by a  *)
(* write, with no lock: another caller may run between the two.  The       *)
(* update of _metrics in the route has no await between its read and its   *)
(* write, so on the event loop it is one step.                             *)
(***************************************************************************)
\* self._verification_count += 1, the read
CallerLoadCount(t) ==
    /\ caller_pc[t] = "idle"
    /\ caller_reg' = [caller_reg EXCEPT ![t] = _verification_count]
    /\ caller_pc' = [caller_pc EXCEPT ![t] = "count_loaded"]
    /\ UNCHANGED <<request_pc, total_queries, errors>>
    /\ UNCHANGED <<requestVars, indexVars, fusionVars, rerankVars,
                   routeVars>>

\* self._verification_count += 1, the write; then the verdict of the call
\* is computed from its narrative.
CallerStoreCount(t, text) ==
    /\ caller_pc[t] = "count_loaded"
    /\ _verification_count' = caller_reg[t] + 1
    /\ caller_reg' = [caller_reg EXCEPT ![t] = 0]
    /\ caller_pc' = [caller_pc EXCEPT ![t] =
         IF VerdictFor(extract_numeric_claims(text), EmptyDict,
                       <<>>).mismatch_detected
         THEN "judged" ELSE "returned"]
    /\ UNCHANGED <<request_pc, total_queries, errors>>
    /\ UNCHANGED <<narrative, pieces, pc, tool_outputs, retrieved_data,
                   claims, verdict, sanitized, guard_result,
                   _mismatch_count>>
    /\ UNCHANGED <<indexVars, fusionVars, rerankVars, routeVars>>

\* self._mismatch_count += 1, the read
CallerLoadMismatch(t) ==
    /\ caller_pc[t] = "judged"
    /\ caller_reg' = [caller_reg EXCEPT ![t] = _mismatch_count]
    /\ caller_pc' = [caller_pc EXCEPT ![t] = "mismatch_loaded"]
    /\ UNCHANGED <<request_pc, total_queries, errors>>
    /\ UNCHANGED <<requestVars, indexVars, fusionVars, rerankVars,
                   routeVars>>

\* self._mismatch_count += 1, the write; verify returns.
CallerStoreMismatch(t) ==
    /\ caller_pc[t] = "mismatch_loaded"
    /\ _mismatch_count' = caller_reg[t] + 1
    /\ caller_reg' = [caller_reg EXCEPT ![t] = 0]
    /\ caller_pc' = [caller_pc EXCEPT ![t] = "returned"]
    /\ UNCHANGED <<request_pc, total_queries, errors>>
    /\ UNCHANGED <<narrative, pieces, pc, tool_outputs, retrieved_data,
                   claims, verdict, sanitized, guard_result,
                   _verification_count>>
    /\ UNCHANGED <<indexVars, fusionVars, rerankVars, routeVars>>

\* _metrics["total_queries"] += 1 at the end of a request
RequestCount(r) ==
    /\ request_pc[r] = "running"
    /\ total_queries' = total_queries + 1
    /\ request_pc' = [request_pc EXCEPT ![r] = "counted"]
    /\ UNCHANGED <<caller_pc, caller_reg, errors>>
    /\ UNCHANGED <<requestVars, indexVars, fusionVars, rerankVars,
                   routeVars>>

\* _metrics["errors"] += 1 in the handler of a failed request
RequestError(r) ==
    /\ request_pc[r] = "running"
    /\ errors' = errors + 1
    /\ request_pc' = [request_pc EXCEPT ![r] = "failed"]
    /\ UNCHANGED <<caller_pc, caller_reg, total_queries>>
    /\ UNCHANGED <<requestVars, indexVars, fusionVars, rerankVars,
                   routeVars>>

NextCounters ==
    \/ \E t \in Callers : CallerLoadCount(t)
    \/ \E t \in Callers, text \in SessionNarratives :
         CallerStoreCount(t, text)
    \/ \E t \in Callers : CallerLoadMismatch(t)
    \/ \E t \in Callers : CallerStoreMismatch(t)
    \/ \E r \in Callers : RequestCount(r)
    \/ \E r \in Callers : RequestError(r)

SpecCounters == Init /\ [][NextCounters]_vars

(***************************************************************************)
(* Route: one request of POST /query goes through the stages of its        *)
(* handler.  The rows are the candidates as the handler holds them after   *)
(* the search; the contents of fusion and re-ranking are modelled above.   *)
(***************************************************************************)
\* The texts the generation call may return as "content".
RouteNarratives == {
    NoText, SomeText(<<>>), SomeText(Fragments[5]), SomeText(Fragments[1]),
    SomeText(Fragments[2]), SomeText(Fragments[3]),
    SomeText(Fragments[1] \o Fragments[2])
}

\* A request arrives (the locals of its handler are fresh) and stages 1 to
\* 3 run: the searches return the rows of the request.
RouteSearch(rows, s) ==
    /\ stage \in {"start", "done"}
    /\ total_queries + errors < MaxRequests
    /\ route_rows' = rows
    /\ stream' = s
    /\ raw_summary' = NoText
    /\ ai_summary' = NoText
    /\ ai_verified' = FALSE
    /\ response' = NoResponse
    /\ events' = <<"search">>
    /\ stage' = "searched"
    /\ UNCHANGED <<requestVars, indexVars, fusionVars, rerankVars,
                   counterVars>>

\* Stages 4 and 5: reciprocal_rank_fusion, cross_score, the trim to
\* request.limit (at least 1) and the response objects; then the test
\* "if properties and not stream".
RouteRank ==
    /\ stage = "searched"
    /\ events' = events \o <<"fuse", "rerank">>
    /\ stage' = IF Len(route_rows) > 0 /\ ~stream
                THEN "generate" ELSE "respond"
    /\ UNCHANGED <<route_rows, stream, raw_summary, ai_summary, ai_verified,
                   response>>
    /\ UNCHANGED <<requestVars, indexVars, fusionVars, rerankVars,
                   counterVars>>

\* Stages 6 and 7: the context is extracted and groq.chat returns.
RouteGenerate(content) ==
    /\ stage = "generate"
    /\ raw_summary' = content
    /\ events' = Append(events, "generate")
    /\ stage' = "guard"
    /\ UNCHANGED <<route_rows, stream, ai_summary, ai_verified, response>>
    /\ UNCHANGED <<requestVars, indexVars, fusionVars, rerankVars,
                   counterVars>>

\* Stage 8, as the mutant that keeps the raw text when the guard rejects.
RouteGuardKeepsRaw ==
    /\ stage = "guard"
    /\ LET result == GuardVerifyResult(raw_summary.text, route_rows)
       IN  /\ ai_summary' = raw_summary
           /\ ai_verified' = result.meta.passed
    /\ events' = events \o <<"guard">>
                 \o (IF GuardCallsJudge(raw_summary.text)
                     THEN <<"judge">> ELSE <<>>)
    /\ stage' = "respond"
    /\ UNCHANGED <<route_rows, stream, raw_summary, response>>
    /\ UNCHANGED <<requestVars, indexVars, fusionVars, rerankVars,
                   counterVars>>

\* Stage 8: HallucinationGuard().verify(raw_summary, props_context); a
\* content of None comes back as None.
RouteGuard ==
    /\ stage = "guard"
    /\ LET result == GuardVerifyResult(raw_summary.text, route_rows)
       IN  /\ ai_summary' = IF raw_summary.none THEN NoText
                            ELSE SomeText(result.text)
           /\ ai_verified' = result.meta.passed
    /\ events' = events \o <<"guard">>
                 \o (IF GuardCallsJudge(raw_summary.text)
                     THEN <<"judge">> ELSE <<>>)
    /\ stage' = "respond"
    /\ UNCHANGED <<route_rows, stream, raw_summary, response>>
    /\ UNCHANGED <<requestVars, indexVars, fusionVars, rerankVars,
                   counterVars>>

\* An exception in the summary block (the generation call or the guard
\* raises): "except Exception" logs it and the handler goes on.
RouteSummaryFails ==
    /\ stage \in {"generate", "guard"}
    /\ events' = Append(events, "ai_summary_failed")
    /\ stage' = "respond"
    /\ UNCHANGED <<route_rows, stream, raw_summary, ai_summary, ai_verified,
                   response>>
    /\ UNCHANGED <<requestVars, indexVars, fusionVars, rerankVars,
                   counterVars>>

\* The metrics update and the QueryResponse.
RouteRespond ==
    /\ stage = "respond"
    /\ total_queries' = total_queries + 1
    /\ response' = [status |-> 200, results |-> Len(route_rows),
                    ai_summary |-> ai_summary, ai_verified |-> ai_verified]
    /\ stage' = "done"
    /\ UNCHANGED <<route_rows, stream, raw_summary, ai_summary, ai_verified,
                   events>>
    /\ UNCHANGED <<caller_pc, caller_reg, request_pc, errors>>
    /\ UNCHANGED <<requestVars, indexVars, fusionVars, rerankVars>>

\* An exception outside the summary block (a search or the building of the
\* response objects raises): the handler answers 500.
RouteFail ==
    /\ stage \in {"start", "searched"}
    /\ errors' = errors + 1
    /\ response' = [NoResponse EXCEPT !.status = 500]
    /\ stage' = "done"
    /\ UNCHANGED <<route_rows, stream, raw_summary, ai_summary, ai_verified,
                   events>>
    /\ UNCHANGED <<caller_pc, caller_reg, request_pc, total_queries>>
    /\ UNCHANGED <<requestVars, indexVars, fusionVars, rerankVars>>

NextRoute ==
    \/ \E rows \in RecordsDomain, s \in BOOLEAN : RouteSearch(rows, s)
    \/ RouteRank
    \/ \E content \in RouteNarratives : RouteGenerate(content)
    \/ RouteGuard
    \/ RouteSummaryFails
    \/ RouteRespond
    \/ RouteFail

SpecRoute == Init /\ [][NextRoute]_vars

(***************************************************************************)
(* Properties                                                              *)
(***************************************************************************)
\* A verify call of the judge has returned (directly or inside the guard).
Judged == pc \in {"judged", "sanitized"}
          \/ (pc = "guarded" /\ ~IsBlank(narrative))

\* Number of claims of the last verify call that satisfy P.
CountClaims(P(_)) == Cardinality({i \in 1..Len(claims) : P(claims[i])})

\* s[i .. i+3] occurs in the text out.
WindowIn(s, i, out) ==
    \E j \in 1..(Len(out) - 3) : \A k \in 0..3 : out[j + k] = s[i + k]

\* Some substring of s longer than 3 characters occurs in out.
SharesLongSubstring(s, out) ==
    \E i \in 1..(Len(s) - 3) : WindowIn(s, i, out)

\* C1: the verdict follows from (total_claims, unverified_claims) by the
\* ordered rules: unverified = 0 gives clean / none; else unverified <= 1
\* and total > 3 gives warning / flagged; else hallucination / rejected.
C1_VerdictRule ==
    Judged =>
      /\ 0 <= verdict.unverified_claims
      /\ verdict.unverified_claims <= verdict.total_claims
      /\ IF verdict.unverified_claims = 0
         THEN verdict.verdict = "clean" /\ verdict.action_taken = "none"
         ELSE IF verdict.unverified_claims <= 1 /\ verdict.total_claims > 3
         THEN verdict.verdict = "warning" /\ verdict.action_taken = "flagged"
         ELSE /\ verdict.verdict = "hallucination"
              /\ verdict.action_taken = "rejected"

\* A verify call returned warning for 5 claims, 1 of them unverified.
C1_Witness ==
    /\ pc = "judged"
    /\ verdict.total_claims = 5
    /\ verdict.unverified_claims = 1
    /\ verdict.verdict = "warning"

\* C2: every verdict has total_claims = verified_claims +
\* unverified_claims, and total_claims is the number of extracted claims.
C2_CountsAddUp ==
    /\ verdict.total_claims
         = verdict.verified_claims + verdict.unverified_claims
    /\ Judged => verdict.total_claims = Len(claims)

\* A verify call counted exempt, verified and unverified claims.
C2_Witness ==
    /\ pc = "judged"
    /\ verdict.unverified_claims > 0
    /\ verdict.verified_claims > CountClaims(IsSafeClaim)
    /\ CountClaims(IsSafeClaim) > 0

\* C3 as stated: for a hallucination verdict no substring longer than 3
\* characters of the narrative occurs in the sanitized output.
C3_NoSharedSubstring ==
    (pc = "sanitized" /\ verdict.verdict = "hallucination")
      => ~SharesLongSubstring(narrative, sanitized)

\* C3 as amended: for a hallucination verdict the output is exactly the
\* fixed rejection message, so a substring longer than 3 characters of the
\* narrative occurs in it only if it occurs in the fixed message.
C3_FixedRejection ==
    (pc = "sanitized" /\ verdict.verdict = "hallucination")
      => /\ sanitized = REJECTION_MESSAGE
         /\ \A i \in 1..(Len(narrative) - 3) :
              WindowIn(narrative, i, sanitized)
                => WindowIn(narrative, i, REJECTION_MESSAGE)

\* A narrative with claims was rejected and sanitized.
C3_Witness ==
    /\ pc = "sanitized"
    /\ verdict.verdict = "hallucination"
    /\ Len(narrative) > 3
    /\ ~SharesLongSubstring(narrative, sanitized)

\* C4: the text the guard hands back is the sanitizer's result for the
\* judge's verdict, and a narrative whose verdict is not clean is never
\* handed back unmodified.
C4_GuardReturnsSanitized ==
    (pc = "guarded" /\ ~IsBlank(narrative))
      => /\ guard_result.text = sanitize(narrative, verdict)
         /\ verdict.verdict # "clean" => guard_result.text # narrative

\* The text s with the mark put in front of the character at every offset
\* of the set (0-based), the last offset first.
RECURSIVE MarkedAt(_, _)
MarkedAt(s, offsets) ==
    IF offsets = {} THEN s
    ELSE LET last == CHOOSE x \in offsets : \A y \in offsets : y <= x
         IN  MarkedAt(SubSeq(s, 1, last) \o UNVERIFIED_MARK
                        \o SubSeq(s, last + 1, Len(s)),
                      offsets \ {last})

\* The narrative with the mark put in front of the character at every
\* recorded mismatch offset.
MarkedAtOffsets(s, mismatches) ==
    MarkedAt(s, {mismatches[k].position : k \in 1..Len(mismatches)}
                \cap 0..(Len(s) - 1))

\* C5: for a warning verdict the output is the narrative with the mark at
\* the recorded offset of each mismatch only, all other text unchanged,
\* followed by the disclaimer.
C5_MarksAtOffsetOnly ==
    (pc = "sanitized" /\ verdict.verdict = "warning")
      => sanitized
           = MarkedAtOffsets(narrative, verdict.mismatches) \o DISCLAIMER

\* |c - ref| < 0.01, or ref # 0 and |c - ref| / |ref| < 0.05.
C6_Near(c, ref) ==
    \/ DecLt(DecAbs(DecSub(c, ref)), Dec(1, 0 - 2))
    \/ /\ ref # DecZero
       /\ DecLt(DecShift(DecAbs(DecSub(c, ref)), 2),
                DecTimes(DecAbs(ref), 5))

\* The claim is not exempt and no value of the reference set built from
\* the tool outputs and every retrieved record is near it.
C6_Unmatched(claim) ==
    /\ claim.type # "bhk"
    /\ \A ref \in flatten_tool_values(tool_outputs) \cup
                  UNION {flatten_tool_values(retrieved_data[i]) :
                           i \in 1..Len(retrieved_data)} :
         ~C6_Near(claim.value, ref)

\* C6: a claim that is not exempt is counted verified if and only if the
\* reference set holds a value near it; the others are the unverified ones,
\* recorded as the mismatches.
C6_VerifiedIffNear ==
    pc = "judged" =>
      /\ verdict.unverified_claims = CountClaims(C6_Unmatched)
      /\ verdict.verified_claims = Len(claims) - CountClaims(C6_Unmatched)
      /\ {<<verdict.mismatches[k].claim_type,
            verdict.mismatches[k].position>> :
            k \in 1..Len(verdict.mismatches)}
           = {<<claims[i].type, claims[i].position>> :
                i \in {j \in 1..Len(claims) : C6_Unmatched(claims[j])}}

\* A claim was verified by a retrieved record whose value is within 5% of
\* it but not within 0.01, while the tool outputs were empty.
C6_Witness ==
    /\ pc = "judged"
    /\ tool_outputs = EmptyDict
    /\ \E i \in 1..Len(claims) :
         /\ ~C6_Unmatched(claims[i])
         /\ claims[i].type = "percentage"
         /\ claims[i].value = Dec(15, 0)
    /\ Dec(15, 0) \notin UNION {flatten_tool_values(retrieved_data[i]) :
                                  i \in 1..Len(retrieved_data)}
    /\ verdict.unverified_claims = 0

\* C7: a narrative without numeric claims is classified clean with all
\* counts zero and no mismatches whatever the reference data is; the guard
\* returns it unchanged with passed = TRUE.
C7_NoClaimsIsClean ==
    /\ (pc = "judged" /\ Len(claims) = 0)
         => /\ verdict.verdict = "clean"
            /\ verdict.total_claims = 0
            /\ verdict.verified_claims = 0
            /\ verdict.unverified_claims = 0
            /\ verdict.mismatches = <<>>
    /\ (pc = "guarded" /\ Len(extract_numeric_claims(narrative)) = 0)
         => /\ guard_result.text = narrative
            /\ guard_result.meta.passed
            /\ guard_result.meta.verdict = "clean"
            /\ guard_result.meta.total_claims = 0

\* A narrative of text without claims was judged against reference data
\* that is not empty.
C7_Witness ==
    /\ pc = "judged"
    /\ Len(narrative) > 0
    /\ ~IsBlank(narrative)
    /\ Len(claims) = 0
    /\ retrieved_data # <<>>
    /\ verdict.verdict = "clean"

\* C8: with empty reference data every claim that is not exempt is
\* unverified, with no closest reference, and the verdict is warning or
\* hallucination as soon as there is such a claim.
C8_EmptyReference ==
    (pc = "judged" /\ ReferenceValues(tool_outputs, retrieved_data) = {})
      => /\ verdict.unverified_claims
              = Cardinality({i \in 1..Len(claims) : claims[i].type # "bhk"})
         /\ \A k \in 1..Len(verdict.mismatches) :
              verdict.mismatches[k].closest_reference.none
         /\ (\E i \in 1..Len(claims) : claims[i].type # "bhk")
              => verdict.verdict \in {"warning", "hallucination"}

\* Claims were judged against empty tool outputs and no records.
C8_Witness ==
    /\ pc = "judged"
    /\ tool_outputs = EmptyDict
    /\ retrieved_data = <<>>
    /\ verdict.unverified_claims = 2
    /\ verdict.verdict = "hallucination"

\* C9: a claim of an exempt type is counted verified without lookup and
\* never appears in the mismatches, whatever the reference set is.
C9_ExemptVerified ==
    Judged =>
      /\ \A k \in 1..Len(verdict.mismatches) :
           verdict.mismatches[k].claim_type # "bhk"
      /\ verdict.verified_claims
           >= Cardinality({i \in 1..Len(claims) : claims[i].type = "bhk"})
      /\ verdict.unverified_claims
           <= Cardinality({i \in 1..Len(claims) : claims[i].type # "bhk"})

\* A bhk claim was judged against an empty reference set and is the only
\* verified claim.
C9_Witness ==
    /\ pc = "judged"
    /\ ReferenceValues(tool_outputs, retrieved_data) = {}
    /\ \E i \in 1..Len(claims) : claims[i].type = "bhk"
    /\ verdict.verified_claims = 1
    /\ verdict.unverified_claims > 0

\* The numeric leaves of a structure, bool leaves left out.
RECURSIVE C10_NumericLeaves(_)
RECURSIVE C10_NumericLeavesOfAll(_)
C10_NumericLeaves(o) ==
    IF o.t = "num" THEN {o.v}
    ELSE IF o.t \in {"dict", "list"} THEN C10_NumericLeavesOfAll(o.kids)
    ELSE {}

C10_NumericLeavesOfAll(kids) ==
    IF Len(kids) = 0 THEN {}
    ELSE C10_NumericLeaves(Head(kids))
         \cup C10_NumericLeavesOfAll(Tail(kids))

\* C10: flatten_tool_values returns every numeric leaf v and, for v # 0,
\* round(v,2), round(v,4), round(v*100,2), round(v*100,4),
\* round(v/100000,2), round(v/10000000,2); strings, booleans and null
\* contribute nothing.
C10_FlattenExact ==
    ipc = "flattened" =>
      flat = UNION {
               {v} \cup
               (IF v # DecZero
                THEN {DecRound(v, 2), DecRound(v, 4),
                      DecRound(DecShift(v, 2), 2),
                      DecRound(DecShift(v, 2), 4),
                      DecRound(DecShift(v, 0 - 5), 2),
                      DecRound(DecShift(v, 0 - 7), 2)}
                ELSE {}) : v \in C10_NumericLeaves(obj)}

\* The claims as (type, value) pairs, in the order extracted.
TypedValues(cl) == [i \in 1..Len(cl) |-> <<cl[i].type, cl[i].value>>]

C12_EndToEnd ==
    (/\ pc = "judged"
     /\ narrative = Fragments[7]
     /\ tool_outputs = JDict(<<"cagr_percent">>, <<JNum(Dec(845, 0 - 2))>>)
     /\ retrieved_data = <<>>)
      => /\ Len(claims) = 3
         /\ {TypedValues(claims)[i] : i \in 1..Len(claims)}
              = {<<"cagr", Dec(845, 0 - 2)>>,
                 <<"percentage", Dec(845, 0 - 2)>>,
                 <<"percentage", Dec(25, 0)>>}
         /\ verdict.total_claims = 3
         /\ verdict.unverified_claims = 1
         /\ verdict.verdict = "hallucination"

\* The ranks at which pid occurs in a list.
RanksOf(list, pid) == {r \in 1..Len(list) : list[r] = pid}

\* Sum of the fractions w / (10 * (60 + r)) for r in the set S.
RECURSIVE SumOver(_, _)
SumOver(S, w) ==
    IF S = {} THEN Frac(0, 1)
    ELSE LET r == CHOOSE x \in S : TRUE
         IN  FracAdd(Frac(w, 10 * (60 + r)), SumOver(S \ {r}, w))

\* The sum over the three lists of w / (60 + r) for each rank r at which
\* pid occurs, with w = 1.0, 0.8 and 0.6.
C13_Score(pid) ==
    FracAdd(SumOver(RanksOf(vector_hits, pid), 10),
            FracAdd(SumOver(RanksOf(keyword_hits, pid), 8),
                    SumOver(RanksOf(spatial_hits, pid), 6)))

C14_VectorFirstDominates ==
    (/\ rpc = "fused"
     /\ Len(vector_hits) > 0
     /\ Elements(vector_hits) \cap Elements(keyword_hits) = {}
     /\ Elements(vector_hits) \cap Elements(spatial_hits) = {}
     /\ Elements(keyword_hits) \cap Elements(spatial_hits) = {})
      => \A i, j \in 1..Len(fused) :
           (/\ fused[i].id = vector_hits[1]
            /\ fused[j].id \notin Elements(vector_hits))
             => i < j

\* Disjoint lists were fused and the first keyword hit follows the two
\* vector hits.
C14_Witness ==
    /\ rpc = "fused"
    /\ Len(vector_hits) = 2
    /\ Len(keyword_hits) > 0
    /\ Len(spatial_hits) > 0
    /\ Len(fused) = Len(vector_hits) + Len(keyword_hits) + Len(spatial_hits)
    /\ fused[1].id = vector_hits[1]
    /\ fused[3].id = keyword_hits[1]

\* C15: after any sequence of earlier verify calls on the same judge
\* instance, a call returns the verdict, counts and mismatches that the
\* same call returns on a fresh judge; the instance counters have no
\* influence.
C15_JudgeIsPure ==
    pc = "judged" =>
      LET fresh == VerifyOn(0, 0, extract_numeric_claims(narrative),
                            tool_outputs, retrieved_data).verdict
      IN  /\ verdict.verdict = fresh.verdict
          /\ verdict.total_claims = fresh.total_claims
          /\ verdict.verified_claims = fresh.verified_claims
          /\ verdict.unverified_claims = fresh.unverified_claims
          /\ verdict.mismatches = fresh.mismatches

\* A call with claims was found clean by an instance that had counted a
\* mismatch in an earlier call.
C15_Witness ==
    /\ pc = "judged"
    /\ _verification_count = 2
    /\ _mismatch_count = 1
    /\ verdict.verdict = "clean"
    /\ verdict.total_claims > 0

\* cross_score has returned.
Reranked == xpc \in {"reranked", "extracted"}

\* The first number of the lower-cased query that is followed by one of
\* the words, times 10^k; none when no number is.
C16_FirstPhrase(words, k) ==
    LET m == Search(Pattern("phrase",
                      <<ReOpen, RePlus(DIGIT),
                        ReOpt(<<ReChar({"."}), RePlus(DIGIT)>>), ReClose,
                        ReStar(SPACE), ReAlt(words)>>),
                    Lower(query))
    IN  IF m.ok THEN [none |-> FALSE, value |-> GroupTimes(m.group, k)]
        ELSE [none |-> TRUE, value |-> Frac(0, 1)]

\* The budget of the query when the lakh phrases are the given words.
C16_Budget(lakh_words) ==
    IF ~C16_FirstPhrase(lakh_words, 5).none
    THEN C16_FirstPhrase(lakh_words, 5)
    ELSE C16_FirstPhrase(<<ReLit(<<"c", "r">>),
                           ReLit(<<"c", "r", "o", "r", "e">>),
                           ReLit(<<"c", "r", "o", "r", "e", "s">>)>>, 7)

\* C16 as stated: the budget is the first number followed by lakh or
\* lakhs, times 100,000; else the first number followed by cr, crore or
\* crores, times 10,000,000; a query with neither phrase has no budget.
C16_BudgetFromWords ==
    Reranked =>
      budget_in_rupees
        = C16_Budget(<<ReLit(<<"l", "a", "k", "h">>),
                       ReLit(<<"l", "a", "k", "h", "s">>)>>)

\* C16 as amended: a number followed by the single letter l that ends a
\* word is a lakh phrase too; "60 lakhs" gives 6,000,000, "2 Cr" gives
\* 20,000,000, "1.5 crore" gives 15,000,000 and "flat under 50 l" gives
\* 5,000,000.
C16_BudgetFromWordsOrL ==
    Reranked =>
      /\ budget_in_rupees
           = C16_Budget(<<ReLit(<<"l", "a", "k", "h">>),
                          ReLit(<<"l", "a", "k", "h", "s">>),
                          <<ReChar({"l"}), ReNotAhead(WORD)>>>>)
      /\ query = <<"6", "0", " ", "l", "a", "k", "h", "s">>
           => budget_in_rupees = [none |-> FALSE, value |-> Frac(6000000, 1)]
      /\ query = <<"2", " ", "C", "r">>
           => budget_in_rupees = [none |-> FALSE, value |-> Frac(20000000, 1)]
      /\ query = <<"1", ".", "5", " ", "c", "r", "o", "r", "e">>
           => budget_in_rupees = [none |-> FALSE, value |-> Frac(15000000, 1)]
      /\ query = <<"f", "l", "a", "t", " ", "u", "n", "d", "e", "r", " ", "5",
                   "0", " ", "l">>
           => budget_in_rupees = [none |-> FALSE, value |-> Frac(5000000, 1)]
      /\ query = <<"f", "l", "a", "t">> => budget_in_rupees.none

\* The query "flat under 50 l" was reranked with a budget of 5,000,000 and
\* a candidate within it.
C16_Witness ==
    /\ xpc = "reranked"
    /\ ~budget_in_rupees.none
    /\ budget_in_rupees.value = Frac(5000000, 1)
    /\ \E i \in 1..Len(reranked) :
         /\ PTruthy(PGet(reranked[i], "price"))
         /\ reranked[i]["price"].v <= 5000000

\* The adjustment of C17 for a price p and a budget B > 0, in millionths:
\* +0.3 * p / B when p <= B, - min(0.2, 0.5 * (p - B) / B) when p > B.
C17_Adjustment(p, B) ==
    LET r == Frac(p * B.d, B.n)
    IN  IF r.n <= r.d
        THEN Frac(300000 * r.n, r.d)
        ELSE IF 500000 * (r.n - r.d) >= 200000 * r.d
             THEN Frac(0 - 200000, 1)
             ELSE Frac(0 - 500000 * (r.n - r.d), r.d)

\* The score of a candidate without its budget signal, before rounding.
C17_OtherSignals(prop) ==
    LET query_lower == Lower(query)
        base == IF PTruthy(PGet(prop, "combined_score"))
                THEN Frac(PGet(prop, "combined_score").v, 1)
                ELSE Frac(0, 1)
    IN  FracAdd(base,
        FracAdd(OverlapSignal(Tokens(query_lower), prop),
        FracAdd(BhkSignal(TargetBhkOf(query_lower), prop),
        FracAdd(LocalitySignal(query_lower, prop), TrustSignal(prop)))))

\* The candidates of the result of cross_score without their new score.
C17_Inputs ==
    [i \in 1..Len(reranked) |->
       [key \in DOMAIN reranked[i] \ {"cross_score"} |-> reranked[i][key]]]

\* C17: with a budget B > 0, the score of a candidate with a price p is its
\* other signals plus +0.3 * p / B when p <= B and minus
\* min(0.2, 0.5 * (p - B) / B) when p > B; the adjustment lies in
\* [-0.2, +0.3], is +0.3 at p = B and is -0.2 at p = 2B and above.
C17_BudgetAdjustment ==
    (Reranked /\ ~budget_in_rupees.none /\ budget_in_rupees.value.n > 0) =>
      \A i \in 1..Len(reranked) :
        LET prop == C17_Inputs[i]
            B == budget_in_rupees.value
        IN  PTruthy(PGet(prop, "price")) =>
              LET p == prop["price"].v
                  adj == C17_Adjustment(p, B)
              IN  /\ reranked[i]["cross_score"]
                       = PScore(FracRound(FracAdd(C17_OtherSignals(prop),
                                                  adj)))
                  /\ FracLe(Frac(0 - 200000, 1), adj)
                  /\ FracLe(adj, Frac(300000, 1))
                  /\ Frac(p, 1) = B => adj = Frac(300000, 1)
                  /\ FracLe(Frac(2 * B.n, B.d), Frac(p, 1))
                       => adj = Frac(0 - 200000, 1)

\* A query with a budget was reranked with a candidate priced at the
\* budget, one at twice the budget and one above twice the budget.
C17_Witness ==
    /\ xpc = "reranked"
    /\ ~budget_in_rupees.none
    /\ budget_in_rupees.value = Frac(6000000, 1)
    /\ \E i, j, k \in 1..Len(reranked) :
         /\ PGet(reranked[i], "price") = PInt(6000000)
         /\ PGet(reranked[j], "price") = PInt(12000000)
         /\ PGet(reranked[k], "price") = PInt(20000000)

\* The maps from the positions of the result of cross_score to the
\* positions of its input that take each input position exactly once.
C18_Permutations ==
    {f \in [1..Len(reranked) -> 1..Len(properties)] :
       /\ \A i, j \in 1..Len(reranked) : i # j => f[i] # f[j]
       /\ \A j \in 1..Len(properties) : \E i \in 1..Len(reranked) : f[i] = j}

\* C18: the result of cross_score is a permutation of its input candidates,
\* each carrying its updated score, in non-increasing score order, and
\* candidates of equal score keep their input order.
C18_StablePermutation ==
    Reranked =>
      /\ Len(reranked) = Len(properties)
      /\ \E f \in C18_Permutations :
           /\ \A i \in 1..Len(reranked) :
                /\ DOMAIN reranked[i]
                     = DOMAIN properties[f[i]] \cup {"cross_score"}
                /\ \A key \in DOMAIN properties[f[i]] :
                     reranked[i][key] = properties[f[i]][key]
                /\ reranked[i]["cross_score"]
                     = PScore(ScoreOf(query, properties[f[i]]))
           /\ \A i, j \in 1..Len(reranked) :
                i < j =>
                  /\ reranked[i]["cross_score"].v
                       >= reranked[j]["cross_score"].v
                  /\ reranked[i]["cross_score"].v
                       = reranked[j]["cross_score"].v => f[i] < f[j]

\* Three candidates were reranked: the first of the input is not the first
\* of the result, and two candidates have the same score.
C18_Witness ==
    /\ xpc = "reranked"
    /\ Len(reranked) = 3
    /\ C17_Inputs[1] # properties[1]
    /\ \E i, j \in 1..3 :
         /\ i < j
         /\ reranked[i]["cross_score"] = reranked[j]["cross_score"]

\* The keys that a context record may carry.
C19_AllowList ==
    {"property_id", "title", "locality", "city", "price", "price_per_sqft",
     "bedrooms", "bathrooms", "carpet_area_sqft", "property_type",
     "listing_type", "status", "builder_name", "project_name", "rera_id",
     "is_verified", "cross_score"}

\* The field of the source candidate that a key of a context record shows.
C19_SourceKey(key) == IF key = "property_id" THEN "id" ELSE key

\* C19: extract_top_k_context returns the first min(K, n) candidates in
\* their input order; each record has only allow-list keys, has no key
\* whose value in the source candidate was absent or null, and has no
\* images, amenities or price_history.
C19_PrunedContext ==
    xpc = "extracted" =>
      /\ Len(context)
           = IF top_k < Len(reranked) THEN top_k ELSE Len(reranked)
      /\ \A i \in 1..Len(context) :
           /\ DOMAIN context[i] \subseteq C19_AllowList
           /\ DOMAIN context[i]
                \cap {"images", "amenities", "price_history"} = {}
           /\ \A key \in DOMAIN context[i] :
                /\ C19_SourceKey(key) \in DOMAIN reranked[i]
                /\ reranked[i][C19_SourceKey(key)] # PNone
                /\ key # "property_id" => context[i][key] = reranked[i][key]
                /\ key = "property_id"
                     => context[i][key] = PStr(PyStr(reranked[i]["id"]))

\* C20: for a clean verdict the sanitizer returns the narrative exactly as
\* given: nothing is inserted, removed or appended.
C20_CleanUnchanged ==
    (pc = "sanitized" /\ verdict.verdict = "clean")
      => /\ Len(sanitized) = Len(narrative)
         /\ \A i \in 1..Len(narrative) : sanitized[i] = narrative[i]

\* A narrative with numeric claims, all of them verified, was sanitized.
C20_Witness ==
    /\ pc = "sanitized"
    /\ verdict.verdict = "clean"
    /\ Len(claims) > 0
    /\ verdict.verified_claims > 0
    /\ sanitized # <<>>

\* A structure holds a value that is neither object, array nor number.
RECURSIVE C21_HasInvalid(_)
C21_HasInvalid(o) ==
    \/ o.t \in {"str", "null"}
    \/ \E i \in 1..Len(o.kids) : C21_HasInvalid(o.kids[i])

\* C21: building the reference set from a structure that holds a value of a
\* wrong type (neither object, array nor number) ends in a raised error: a
\* reference set is never returned for such a structure.
C21_InvalidRaises ==
    ipc = "flattened" => ~C21_HasInvalid(obj)

\* C22: when all concurrent verify calls on the one judge have returned,
\* its verification total is their number, and when all concurrent
\* requests have ended, total_queries is the number of those that were
\* answered: no increment is lost under any interleaving.
C22_NoLostUpdate ==
    /\ (\A t \in Callers : caller_pc[t] = "returned")
         => _verification_count = MaxCallers
    /\ (\A r \in Callers : request_pc[r] # "running")
         => total_queries
              = Cardinality({r \in Callers : request_pc[r] = "counted"})

\* The positions of a call in the calls the handler has made.
C23_Positions(e) == {i \in 1..Len(events) : events[i] = e}

\* C23: the generation call comes only after fusion and re-ranking and only
\* with at least one candidate; the judge is invoked only after a
\* generation call that returned a narrative that is not empty; a request
\* with no candidate or with no generated narrative never reaches the judge.
C23_StagesOrdered ==
    /\ \A g \in C23_Positions("generate") :
         /\ \E f \in C23_Positions("fuse") : f < g
         /\ \E r \in C23_Positions("rerank") : r < g
         /\ Len(route_rows) > 0
    /\ \A j \in C23_Positions("judge") :
         /\ \E g \in C23_Positions("generate") : g < j
         /\ ~raw_summary.none
         /\ Len(raw_summary.text) > 0
    /\ (Len(route_rows) = 0 \/ C23_Positions("generate") = {}
        \/ raw_summary.none \/ raw_summary.text = <<>>)
         => C23_Positions("judge") = {}

\* A request with candidates was answered after its narrative went to the
\* judge, and an earlier request was answered too.
C23_Witness ==
    /\ stage = "done"
    /\ response.status = 200
    /\ total_queries = 2
    /\ C23_Positions("judge") # {}
    /\ Len(route_rows) > 0

\* The place at which an identifier is first met when the vector list, then
\* the keyword list, then the spatial list are scanned in rank order.
C24_FirstMet(pid) ==
    LET scan == vector_hits \o keyword_hits \o spatial_hits
    IN  CHOOSE i \in 1..Len(scan) :
          /\ scan[i] = pid
          /\ \A j \in 1..(i - 1) : scan[j] # pid

\* C24: two identifiers of equal fused score appear in the order in which
\* they are first met when the vector list, the keyword list and the
\* spatial list are scanned in this order, each in rank order.
C24_TiesInScanOrder ==
    rpc = "fused" =>
      \A i, j \in 1..Len(fused) :
        (i < j /\ fused[i].score = fused[j].score)
          => C24_FirstMet(fused[i].id) < C24_FirstMet(fused[j].id)

\* The identifier at rank 20 of the vector list and the one at rank 4 of
\* the keyword list have the same score, 1 / 80 = 0.8 / 64, and were fused.
C24_Witness ==
    /\ rpc = "fused"
    /\ Len(vector_hits) >= 20
    /\ Len(keyword_hits) >= 4
    /\ \E i \in 1..(Len(fused) - 1) :
         /\ fused[i].id = vector_hits[20]
         /\ fused[i + 1].id = keyword_hits[4]
         /\ fused[i].score = Frac(1, 80)
         /\ fused[i + 1].score = Frac(1, 80)

\* C25: the claims extracted from a narrative are ordered by character
\* offset: the position of each claim is at most the position of the next,
\* also for claims of different pattern types.
C25_OrderedByOffset ==
    Judged =>
      \A i \in 1..(Len(claims) - 1) :
        claims[i].position <= claims[i + 1].position

\* The digit of the first "<digit> bhk|bedroom|bed" phrase of the
\* lower-cased query; none when the query has no such phrase.
C26_Target ==
    LET m == Search(Pattern("phrase",
                      <<ReOpen, ReChar(DIGIT), ReClose, ReStar(SPACE),
                        ReAlt(<<ReLit(<<"b", "h", "k">>),
                                ReLit(<<"b", "e", "d", "r", "o", "o", "m">>),
                                ReLit(<<"b", "e", "d">>)>>)>>),
                    Lower(query))
    IN  IF m.ok THEN [none |-> FALSE, d |-> DigitValue(m.group[1])]
        ELSE [none |-> TRUE, d |-> 0]

\* The bedroom bonus of C26 for a target d, in millionths.
C26_Bonus(d, prop) ==
    IF PGet(prop, "bedrooms").t = "none" THEN Frac(0, 1)
    ELSE IF PGet(prop, "bedrooms").v = d THEN Frac(250000, 1)
    ELSE IF PGet(prop, "bedrooms").v - d \in {0 - 1, 1}
    THEN Frac(100000, 1)
    ELSE Frac(0, 1)

\* The score of a candidate without its bedroom signal, before rounding.
C26_OtherSignals(prop) ==
    LET query_lower == Lower(query)
        base == IF PTruthy(PGet(prop, "combined_score"))
                THEN Frac(PGet(prop, "combined_score").v, 1)
                ELSE Frac(0, 1)
    IN  FracAdd(base,
        FracAdd(OverlapSignal(Tokens(query_lower), prop),
        FracAdd(BudgetSignal(BudgetOf(query_lower), prop),
        FracAdd(LocalitySignal(query_lower, prop), TrustSignal(prop)))))

\* C26: when the query has a "<digit> bhk|bedroom|bed" phrase, the first
\* such digit d, for every digit 0..9, is the target bedroom count: the
\* score of a candidate is its other signals plus 0.25 when its bedrooms
\* equal d, plus 0.10 when they differ from d by exactly 1, and plus nothing
\* otherwise or when the candidate has no bedroom count.
C26_BedroomBonus ==
    (Reranked /\ ~C26_Target.none) =>
      \A i \in 1..Len(reranked) :
        LET prop == C17_Inputs[i]
        IN  reranked[i]["cross_score"]
              = PScore(FracRound(FracAdd(C26_OtherSignals(prop),
                                         C26_Bonus(C26_Target.d, prop))))

\* C27: the confidence of a verdict lies in [0, 1]; it is 1 when no claim
\* is unverified and 1 - unverified_claims / total_claims otherwise, so it
\* is at least 0.75 for a warning and exactly 0 when every claim is
\* unverified.
C27_Confidence ==
    Judged =>
      LET c == verdict.confidence
          u == verdict.unverified_claims
          t == verdict.total_claims
      IN  /\ c.den > 0
          /\ 0 <= c.num /\ c.num <= c.den
          /\ u = 0 => c.num = c.den
          /\ u > 0 => c.num * t = (t - u) * c.den
          /\ verdict.verdict = "warning" => 4 * c.num >= 3 * c.den
          /\ (u > 0 /\ u = t) => c.num = 0

\* A warning was returned with confidence 3/4.
C27_Witness ==
    /\ pc = "judged"
    /\ verdict.verdict = "warning"
    /\ verdict.total_claims = 4
    /\ verdict.unverified_claims = 1

\* What get_metrics reports in the current state.
C28_Metrics == get_metrics(_verification_count, _mismatch_count)

\* C28: on one judge instance whose calls do not overlap, every verify
\* call, one that returns early without claims included, adds one to
\* total_verifications, and adds one to total_mismatches exactly when its
\* verdict is warning or hallucination; so both counters start at zero,
\* never decrease and count the calls; 0 <= total_mismatches <=
\* total_verifications; mismatch_rate is their ratio, and 0 before the
\* first call.
C28_MetricsCountCalls ==
    /\ [](/\ 0 <= C28_Metrics.total_mismatches
          /\ C28_Metrics.total_mismatches <= C28_Metrics.total_verifications
          /\ pc = "compose" =>
                /\ C28_Metrics.total_verifications = 0
                /\ C28_Metrics.total_mismatches = 0
          /\ IF C28_Metrics.total_verifications = 0
             THEN C28_Metrics.mismatch_rate = Frac(0, 1)
             ELSE C28_Metrics.mismatch_rate.n
                    * C28_Metrics.total_verifications
                  = C28_Metrics.total_mismatches
                    * C28_Metrics.mismatch_rate.d)
    /\ [][LET after == get_metrics(_verification_count', _mismatch_count')
          IN  /\ after.total_verifications
                   = C28_Metrics.total_verifications + 1
              /\ after.total_mismatches
                   = C28_Metrics.total_mismatches
                     + (IF verdict'.verdict \in {"warning", "hallucination"}
                        THEN 1 ELSE 0)]_vars

\* Two calls were made on one instance: one was rejected or flagged, and
\* the last returned early for a narrative without claims.
C28_Witness ==
    /\ pc = "judged"
    /\ _verification_count = 2
    /\ _mismatch_count = 1
    /\ claims = <<>>
    /\ verdict.verdict = "clean"

\* The claim is neither exempt nor matched by a reference value of the
\* last verify call.
C29_IsUnverified(claim) ==
    /\ claim.type # "bhk"
    /\ ~_find_matching_source(claim.value,
                              ReferenceValues(tool_outputs, retrieved_data))

\* The unverified claims of the last verify call, in claim order.
C29_UnverifiedClaims == SelectSeq(claims, C29_IsUnverified)

\* C29: mismatches holds exactly one entry per unverified claim, in claim
\* order, and none for a verified or exempt claim, so its length is
\* unverified_claims; mismatch_detected is true exactly when the verdict
\* is warning or hallucination.
C29_MismatchEntries ==
    Judged =>
      /\ Len(verdict.mismatches) = verdict.unverified_claims
      /\ Len(verdict.mismatches) = Len(C29_UnverifiedClaims)
      /\ \A i \in 1..Len(verdict.mismatches) :
           /\ verdict.mismatches[i].claimed_value
                = C29_UnverifiedClaims[i].value
           /\ verdict.mismatches[i].claim_type = C29_UnverifiedClaims[i].type
           /\ verdict.mismatches[i].raw_text = C29_UnverifiedClaims[i].raw
           /\ verdict.mismatches[i].position
                = C29_UnverifiedClaims[i].position
      /\ verdict.mismatch_detected
           <=> verdict.verdict \in {"warning", "hallucination"}

\* A verify call met an exempt claim, a verified claim and two unverified
\* claims at different offsets.
C29_Witness ==
    /\ pc = "judged"
    /\ Len(verdict.mismatches) = 2
    /\ verdict.mismatches[1].position # verdict.mismatches[2].position
    /\ verdict.verified_claims > CountClaims(IsSafeClaim)
    /\ CountClaims(IsSafeClaim) > 0

\* The event was logged while the current request was handled.
C30_Logged(e) == \E i \in 1..Len(events) : events[i] = e

\* C30: the ai_summary of a response of the /query route is absent or is
\* the text HallucinationGuard.verify returned for the generated text of
\* that request, never a generated text that did not pass through the
\* guard; when the generation call or the guard raises, the request is
\* still answered with its property list, without ai_summary and with
\* ai_verified false.
C30_SummaryFromGuard ==
    /\ (stage = "done" /\ response.status = 200) =>
         /\ response.results = Len(route_rows)
         /\ \/ response.ai_summary.none
            \/ /\ C30_Logged("guard")
               /\ response.ai_summary.text
                    = GuardVerifyResult(raw_summary.text, route_rows).text
         /\ response.ai_verified => C30_Logged("guard")
         /\ C30_Logged("ai_summary_failed") =>
              /\ response.ai_summary.none
              /\ ~response.ai_verified
    /\ C30_Logged("ai_summary_failed") =>
         /\ stage \in {"respond", "done"}
         /\ stage = "done" => response.status = 200

\* A request was answered with the rejection message in place of the
\* generated text.
C30_Witness ==
    /\ stage = "done"
    /\ response.status = 200
    /\ response.results > 0
    /\ ~raw_summary.none
    /\ response.ai_summary = SomeText(REJECTION_MESSAGE)
    /\ ~response.ai_verified

====
